---- MODULE Spec2Model ----
(***************************************************************************)
(* A model of the CSA game-record parser (shogi-kifu-rs):                  *)
(*   - the dialect detector and facade     src/src/parser/csa/mod.rs       *)
(*                                         src/src/parser/mod.rs           *)
(*   - the V2.2 semantic transformer       src/src/parser/csa/v2_2/mod.rs  *)
(*   - the V3.0 semantic transformer       src/src/parser/csa/v3/mod.rs    *)
(* Text is a sequence of one-character strings, so that trimming, prefix   *)
(* tests, substring search and line splitting are computed, not assumed.   *)
(***************************************************************************)
EXTENDS Integers, Sequences, FiniteSets, TLC

VARIABLES
    input,      \* detector/facade: the raw text handed to the entry point
    dpc,        \* detector/facade: "idle", "input", "detected", "in_parse"
                \* (inside csa::parse, called directly or by parse_csa),
                \* "parsed"
    detected,   \* detector/facade: result of detect_version (Option<Version>)
    ran,        \* detector/facade: dialect parsers invoked by the facade
    outcome,    \* detector/facade: Result of the entry point that was called
    cdialect,   \* classifier: the dialect whose parse_special_move is called
    ctoken,     \* classifier: the event token text (special_move.as_str())
    cresult,    \* classifier: the Action returned
    cpc,        \* classifier: "idle", "token", "classified"
    mdialect,   \* assembler: the dialect whose parse_move_records runs
    mnodes,     \* assembler: the children of the move_records node
    mi,         \* assembler: number of children consumed by the loop
    moves,      \* assembler: the local vector moves
    pending,    \* assembler: the local pending_action
    mpc,        \* assembler: "idle", "loop", "done", "abort" (panicked)
    pdialect,   \* transformer: the dialect whose parse runs
    psrc,       \* transformer: the text parsed, section by section
    pidx,       \* transformer: children of game_record walked so far
    record,     \* transformer: the local record (GameRecord)
    ppc,        \* transformer: "idle", "walk", "done" (Ok(record)), "abort" (panicked)
    adialect,   \* attributes: the dialect whose parse_game_attr runs
    ainput,     \* attributes: the attribute line: key, form of the value, text
    arecord,    \* attributes: the record handed to parse_game_attr
    apc,        \* attributes: "idle", "input", "done", "abort" (panicked)
    vfn,        \* converters: the converter called
    vdialect,   \* converters: the dialect it belongs to
    vnode,      \* converters: the node handed to it
    vresult,    \* converters: the value returned
    vpc         \* converters: "idle", "input", "done", "abort" (panicked)

detectVars == <<input, dpc, detected, ran, outcome>>
classifyVars == <<cdialect, ctoken, cresult, cpc>>
assemblerVars == <<mdialect, mnodes, mi, moves, pending, mpc>>
transformVars == <<pdialect, psrc, pidx, record, ppc>>
attrVars == <<adialect, ainput, arecord, apc>>
convertVars == <<vfn, vdialect, vnode, vresult, vpc>>

vars == <<input, dpc, detected, ran, outcome, cdialect, ctoken, cresult, cpc,
          mdialect, mnodes, mi, moves, pending, mpc,
          pdialect, psrc, pidx, record, ppc,
          adialect, ainput, arecord, apc,
          vfn, vdialect, vnode, vresult, vpc>>

-----------------------------------------------------------------------------
(* Option and Result values *)

None == <<>>
Some(x) == <<x>>
IsSome(o) == Len(o) = 1
Unwrap(o) == o[1]

Ok(x) == <<"Ok", x>>
Err(kind, msg) == <<"Err", kind, msg>>
IsOk(r) == r[1] = "Ok"
IsErr(r) == r[1] = "Err"

-----------------------------------------------------------------------------
(* Text primitives of the Rust standard library, as the source uses them *)

\* A text is a sequence of characters, one string for each char.  An ASCII
\* character is the string of that character; a character outside ASCII is
\* the string "U+" followed by the four hexadecimal digits of its code point
\* ("U+3000" is the ideographic space, "U+00E9" the letter e with acute), so
\* that the characters of a text do not depend on the encoding of this file.
\*
\* char::is_whitespace, the Unicode property White_Space: the 25 characters
\* U+0009 to U+000D, U+0020, U+0085, U+00A0, U+1680, U+2000 to U+200A,
\* U+2028, U+2029, U+202F, U+205F and U+3000.
WhiteSpace ==
    {"\t", "\n", "", "\f", "\r", " ",
     "U+0085", "U+00A0", "U+1680",
     "U+2000", "U+2001", "U+2002", "U+2003", "U+2004", "U+2005",
     "U+2006", "U+2007", "U+2008", "U+2009", "U+200A",
     "U+2028", "U+2029", "U+202F", "U+205F", "U+3000"}

\* str::starts_with
StartsWith(s, p) == Len(s) >= Len(p) /\ SubSeq(s, 1, Len(p)) = p

\* str::contains
Contains(s, p) ==
    \E i \in 1..(Len(s) - Len(p) + 1) : SubSeq(s, i, i + Len(p) - 1) = p

RECURSIVE TrimStart(_)
TrimStart(s) ==
    IF s # <<>> /\ Head(s) \in WhiteSpace THEN TrimStart(Tail(s)) ELSE s

RECURSIVE TrimEnd(_)
TrimEnd(s) ==
    IF s # <<>> /\ s[Len(s)] \in WhiteSpace
    THEN TrimEnd(SubSeq(s, 1, Len(s) - 1))
    ELSE s

\* str::trim
Trim(s) == TrimEnd(TrimStart(s))

\* the line before a "\n" loses one "\r" at its end
StripCR(l) ==
    IF l # <<>> /\ l[Len(l)] = "\r" THEN SubSeq(l, 1, Len(l) - 1) ELSE l

\* str::lines: a line ends at "\n" or "\r\n"; a last line without "\n" is
\* kept as it is, a "\r" at its end included; no empty last line after a
\* final terminator
RECURSIVE SplitNewline(_, _)
SplitNewline(s, cur) ==
    IF s = <<>> THEN (IF cur = <<>> THEN <<>> ELSE <<cur>>)
    ELSE IF Head(s) = "\n" THEN <<StripCR(cur)>> \o SplitNewline(Tail(s), <<>>)
    ELSE SplitNewline(Tail(s), Append(cur, Head(s)))

Lines(s) == SplitNewline(s, <<>>)

-----------------------------------------------------------------------------
(* Dialect detector: src/src/parser/csa/mod.rs *)

Versions == {"V2", "V2_1", "V2_2", "V3"}

tokV2 == <<"V", "2">>
tokV2_1 == <<"V", "2", ".", "1">>
tokV2_2 == <<"V", "2", ".", "2">>
tokV3_0 == <<"V", "3", ".", "0">>
EncodingPrefix == <<"'", "C", "S", "A", " ", "e", "n", "c", "o", "d", "i", "n", "g", "=">>
Apostrophe == <<"'">>

\* a variant that takes any line starting with the letter V as V2
VersionLineMutRelaxed(trimmed) ==
    IF StartsWith(trimmed, <<"V">>)
    THEN IF StartsWith(trimmed, tokV3_0) THEN Some("V3")
         ELSE IF StartsWith(trimmed, tokV2_2) THEN Some("V2_2")
         ELSE IF StartsWith(trimmed, tokV2_1) THEN Some("V2_1")
         ELSE IF StartsWith(trimmed, tokV2) THEN Some("V2")
         ELSE None
    ELSE None

\* a variant whose V2.2 and V2.1 branches return each other's dialect
VersionLineMutSwapped(trimmed) ==
    IF StartsWith(trimmed, <<"V">>)
    THEN IF trimmed = tokV3_0 THEN Some("V3")
         ELSE IF trimmed = tokV2_2 THEN Some("V2_1")
         ELSE IF trimmed = tokV2_1 THEN Some("V2_2")
         ELSE IF trimmed = tokV2 THEN Some("V2")
         ELSE None
    ELSE None

\* the chain of comparisons at mod.rs:38-48; None when no branch returns
VersionLine(trimmed) ==
    IF StartsWith(trimmed, <<"V">>)
    THEN IF trimmed = tokV3_0 THEN Some("V3")
         ELSE IF trimmed = tokV2_2 THEN Some("V2_2")
         ELSE IF trimmed = tokV2_1 THEN Some("V2_1")
         ELSE IF trimmed = tokV2 THEN Some("V2")
         ELSE None
    ELSE None

\* a variant that never recognizes the encoding declaration
IsEncodingDeclMutNever(trimmed) == FALSE

\* mod.rs:28: the encoding declaration is tested before the comment skip
IsEncodingDecl(trimmed) == StartsWith(trimmed, EncodingPrefix)

\* a variant that scans on after a line that is no version token
RECURSIVE DetectLinesMutScanOn(_)
DetectLinesMutScanOn(ls) ==
    IF ls = <<>> THEN None
    ELSE LET trimmed == Trim(Head(ls))
         IN  IF IsEncodingDecl(trimmed) THEN Some("V3")
             ELSE IF StartsWith(trimmed, Apostrophe) THEN DetectLinesMutScanOn(Tail(ls))
             ELSE IF IsSome(VersionLine(trimmed)) THEN VersionLine(trimmed)
             ELSE DetectLinesMutScanOn(Tail(ls))

\* the loop body of detect_version over the remaining lines
RECURSIVE DetectLines(_)
DetectLines(ls) ==
    IF ls = <<>> THEN None
    ELSE LET trimmed == Trim(Head(ls))
         IN  IF IsEncodingDecl(trimmed) THEN Some("V3")
             ELSE IF StartsWith(trimmed, Apostrophe) THEN DetectLines(Tail(ls))
             ELSE IF IsSome(VersionLine(trimmed)) THEN VersionLine(trimmed)
             ELSE IF trimmed # <<>> THEN None
             ELSE DetectLines(Tail(ls))

detect_version(text) == DetectLines(Lines(text))

-----------------------------------------------------------------------------
(* Domain values: crate::value (Color, Action) as the transformers build them *)

Black == "Black"
White == "White"

ActToryo == <<"Toryo">>
ActChudan == <<"Chudan">>
ActSennichite == <<"Sennichite">>
ActTimeUp == <<"TimeUp">>
ActIllegalMove == <<"IllegalMove">>
ActIllegalAction(color) == <<"IllegalAction", color>>
ActJishogi == <<"Jishogi">>
ActKachi == <<"Kachi">>
ActHikiwake == <<"Hikiwake">>
ActMatta == <<"Matta">>
ActTsumi == <<"Tsumi">>
ActFuzumi == <<"Fuzumi">>
ActError == <<"Error">>
ActMove(color, from, to, piece) == <<"Move", color, from, to, piece>>

-----------------------------------------------------------------------------
(* Event classification: parse_special_move of the V2.2 and V3.0 transformers *)

kwToryo == <<"T", "O", "R", "Y", "O">>
kwChudan == <<"C", "H", "U", "D", "A", "N">>
kwSennichite == <<"S", "E", "N", "N", "I", "C", "H", "I", "T", "E">>
kwTimeUp == <<"T", "I", "M", "E", "_", "U", "P">>
kwIllegalMove == <<"I", "L", "L", "E", "G", "A", "L", "_", "M", "O", "V", "E">>
kwJishogi == <<"J", "I", "S", "H", "O", "G", "I">>
kwKachi == <<"K", "A", "C", "H", "I">>
kwHikiwake == <<"H", "I", "K", "I", "W", "A", "K", "E">>
kwMatta == <<"M", "A", "T", "T", "A">>
kwMaxMoves == <<"M", "A", "X", "_", "M", "O", "V", "E", "S">>
kwTsumi == <<"T", "S", "U", "M", "I">>
kwFuzumi == <<"F", "U", "Z", "U", "M", "I">>
kwPlusIllegalAction == <<"+", "I", "L", "L", "E", "G", "A", "L", "_", "A", "C", "T", "I", "O", "N">>
kwMinusIllegalAction == <<"-", "I", "L", "L", "E", "G", "A", "L", "_", "A", "C", "T", "I", "O", "N">>

\* a variant whose first check is the generic prefix ILLEGAL_
SpecialMovesV22MutGeneric ==
    << <<kwToryo, ActToryo>>, <<kwChudan, ActChudan>>,
       <<kwSennichite, ActSennichite>>, <<kwTimeUp, ActTimeUp>>,
       <<SubSeq(kwIllegalMove, 1, 8), ActIllegalMove>>,
       <<kwPlusIllegalAction, ActIllegalAction(Black)>>,
       <<kwMinusIllegalAction, ActIllegalAction(White)>>,
       <<kwJishogi, ActJishogi>>, <<kwKachi, ActKachi>>,
       <<kwHikiwake, ActHikiwake>>, <<kwMatta, ActMatta>>,
       <<kwTsumi, ActTsumi>>, <<kwFuzumi, ActFuzumi>> >>

\* the if / else-if chain of v2_2::parse_special_move, in source order:
\* <<substring tested, Action returned>>
SpecialMovesV22 ==
    << <<kwToryo, ActToryo>>, <<kwChudan, ActChudan>>,
       <<kwSennichite, ActSennichite>>, <<kwTimeUp, ActTimeUp>>,
       <<kwIllegalMove, ActIllegalMove>>,
       <<kwPlusIllegalAction, ActIllegalAction(Black)>>,
       <<kwMinusIllegalAction, ActIllegalAction(White)>>,
       <<kwJishogi, ActJishogi>>, <<kwKachi, ActKachi>>,
       <<kwHikiwake, ActHikiwake>>, <<kwMatta, ActMatta>>,
       <<kwTsumi, ActTsumi>>, <<kwFuzumi, ActFuzumi>> >>

\* a variant that returns Jishogi for KACHI
SpecialMovesV3MutKachi ==
    << <<kwToryo, ActToryo>>, <<kwChudan, ActChudan>>,
       <<kwSennichite, ActSennichite>>, <<kwTimeUp, ActTimeUp>>,
       <<kwIllegalMove, ActIllegalMove>>,
       <<kwPlusIllegalAction, ActIllegalAction(Black)>>,
       <<kwMinusIllegalAction, ActIllegalAction(White)>>,
       <<kwJishogi, ActJishogi>>, <<kwKachi, ActJishogi>>,
       <<kwHikiwake, ActHikiwake>>, <<kwMaxMoves, ActError>>,
       <<kwTsumi, ActTsumi>>, <<kwFuzumi, ActFuzumi>> >>

\* a variant that still recognizes MATTA
SpecialMovesV3MutMatta ==
    << <<kwToryo, ActToryo>>, <<kwChudan, ActChudan>>,
       <<kwSennichite, ActSennichite>>, <<kwTimeUp, ActTimeUp>>,
       <<kwIllegalMove, ActIllegalMove>>,
       <<kwPlusIllegalAction, ActIllegalAction(Black)>>,
       <<kwMinusIllegalAction, ActIllegalAction(White)>>,
       <<kwJishogi, ActJishogi>>, <<kwKachi, ActKachi>>,
       <<kwHikiwake, ActHikiwake>>, <<kwMatta, ActMatta>>,
       <<kwMaxMoves, ActError>>,
       <<kwTsumi, ActTsumi>>, <<kwFuzumi, ActFuzumi>> >>

\* a variant that has an event of its own for MAX_MOVES
SpecialMovesV3MutMaxMoves ==
    << <<kwToryo, ActToryo>>, <<kwChudan, ActChudan>>,
       <<kwSennichite, ActSennichite>>, <<kwTimeUp, ActTimeUp>>,
       <<kwIllegalMove, ActIllegalMove>>,
       <<kwPlusIllegalAction, ActIllegalAction(Black)>>,
       <<kwMinusIllegalAction, ActIllegalAction(White)>>,
       <<kwJishogi, ActJishogi>>, <<kwKachi, ActKachi>>,
       <<kwHikiwake, ActHikiwake>>, <<kwMaxMoves, ActJishogi>>,
       <<kwTsumi, ActTsumi>>, <<kwFuzumi, ActFuzumi>> >>

\* the chain of v3::parse_special_move: MAX_MOVES in the place of MATTA
SpecialMovesV3 ==
    << <<kwToryo, ActToryo>>, <<kwChudan, ActChudan>>,
       <<kwSennichite, ActSennichite>>, <<kwTimeUp, ActTimeUp>>,
       <<kwIllegalMove, ActIllegalMove>>,
       <<kwPlusIllegalAction, ActIllegalAction(Black)>>,
       <<kwMinusIllegalAction, ActIllegalAction(White)>>,
       <<kwJishogi, ActJishogi>>, <<kwKachi, ActKachi>>,
       <<kwHikiwake, ActHikiwake>>, <<kwMaxMoves, ActError>>,
       <<kwTsumi, ActTsumi>>, <<kwFuzumi, ActFuzumi>> >>

\* the first branch whose substring occurs in s decides; the final else is Error
RECURSIVE FirstMatch(_, _)
FirstMatch(s, checks) ==
    IF checks = <<>> THEN ActError
    ELSE IF Contains(s, Head(checks)[1]) THEN Head(checks)[2]
    ELSE FirstMatch(s, Tail(checks))

v2_2_parse_special_move(s) == FirstMatch(s, SpecialMovesV22)

v3_parse_special_move(s) == FirstMatch(s, SpecialMovesV3)

-----------------------------------------------------------------------------
(* Syntax-tree nodes handed over by the grammar engine (pest::iterators::Pair):
   a rule, the text it spans (as_str) and its children (into_inner) *)

Node(rule, text, inner) == [rule |-> rule, text |-> text, inner |-> inner]
Leaf(rule, text) == Node(rule, text, <<>>)

-----------------------------------------------------------------------------
(* Lexical value converters, identical in v2_2/mod.rs and v3/mod.rs *)

\* char::to_digit(10)
to_digit(c) ==
    CASE c = "0" -> Some(0) [] c = "1" -> Some(1) [] c = "2" -> Some(2)
      [] c = "3" -> Some(3) [] c = "4" -> Some(4) [] c = "5" -> Some(5)
      [] c = "6" -> Some(6) [] c = "7" -> Some(7) [] c = "8" -> Some(8)
      [] c = "9" -> Some(9) [] OTHER -> None

\* Option::unwrap_or
unwrap_or(o, dflt) == IF IsSome(o) THEN Unwrap(o) ELSE dflt

\* the digits of s read as a decimal number; None at the first non-digit
RECURSIVE DigitsValue(_, _)
DigitsValue(s, acc) ==
    IF s = <<>> THEN Some(acc)
    ELSE IF to_digit(Head(s)) = None THEN None
    ELSE DigitsValue(Tail(s), acc * 10 + Unwrap(to_digit(Head(s))))

\* s without its leading zeros
RECURSIVE StripZeros(_)
StripZeros(s) ==
    IF s # <<>> /\ Head(s) = "0" THEN StripZeros(Tail(s)) ELSE s

\* a <= b for digit texts of the same length
RECURSIVE DigitsLeq(_, _)
DigitsLeq(a, b) ==
    IF a = <<>> THEN TRUE
    ELSE IF Head(a) # Head(b) THEN Unwrap(to_digit(Head(a))) < Unwrap(to_digit(Head(b)))
    ELSE DigitsLeq(Tail(a), Tail(b))

AllDigits(s) == \A k \in 1..Len(s) : IsSome(to_digit(s[k]))

\* the number written by the digits is at most the number written by maxText
FitsIn(digits, maxText) ==
    LET t == StripZeros(digits)
    IN  \/ Len(t) < Len(maxText)
        \/ (Len(t) = Len(maxText) /\ DigitsLeq(t, maxText))

u64MaxText == <<"1", "8", "4", "4", "6", "7", "4", "4", "0", "7", "3", "7", "0", "9", "5", "5", "1", "6", "1", "5">>
u8MaxText == <<"2", "5", "5">>
i32MaxText == <<"2", "1", "4", "7", "4", "8", "3", "6", "4", "7">>

\* str::parse for an unsigned type: an optional "+" and at least one digit,
\* nothing else, and a value the type can hold; Err otherwise (None here)
ParseUnsigned(s, maxText) ==
    LET digits == IF s # <<>> /\ Head(s) = "+" THEN Tail(s) ELSE s
    IN  IF digits = <<>> \/ ~AllDigits(digits) \/ ~FitsIn(digits, maxText) THEN None
        ELSE Some(StripZeros(digits))

ParseU8(s) ==
    LET t == ParseUnsigned(s, u8MaxText)
    IN  IF t = None THEN None ELSE DigitsValue(Unwrap(t), 0)

\* the digits of i32::MIN, the one value below -i32::MAX
i32MinDigits == <<"2", "1", "4", "7", "4", "8", "3", "6", "4", "8">>

\* str::parse::<i32>: an optional sign and at least one digit, and a value
\* in i32::MIN..i32::MAX
ParseI32(s) ==
    LET signed == s # <<>> /\ Head(s) \in {"+", "-"}
        digits == IF signed THEN Tail(s) ELSE s
    IN  IF digits = <<>> \/ ~AllDigits(digits) THEN None
        ELSE IF signed /\ Head(s) = "-" /\ StripZeros(digits) = i32MinDigits
             THEN Some((0 - 2147483647) - 1)
        ELSE IF ~FitsIn(digits, i32MaxText) THEN None
        ELSE IF signed /\ Head(s) = "-"
             THEN Some(0 - Unwrap(DigitsValue(StripZeros(digits), 0)))
             ELSE DigitsValue(StripZeros(digits), 0)

(* u64 values and Durations go beyond the integers of the model checker, so
   they are held as decimal numerals: sequences of digits 0..9, most
   significant first, without leading zeros, <<0>> for zero. *)

Rev(s) == [k \in 1..Len(s) |-> s[Len(s) + 1 - k]]

RECURSIVE NumStrip(_)
NumStrip(a) == IF Len(a) > 1 /\ Head(a) = 0 THEN NumStrip(Tail(a)) ELSE a

\* the numeral of a natural number of the model
RECURSIVE NumOf(_)
NumOf(n) == IF n < 10 THEN <<n>> ELSE Append(NumOf(n \div 10), n % 10)

\* the numeral written by a text of digits
NumOfText(t) ==
    IF StripZeros(t) = <<>> THEN <<0>>
    ELSE [k \in 1..Len(StripZeros(t)) |-> Unwrap(to_digit(StripZeros(t)[k]))]

NumLess(a, b) ==
    \/ Len(a) < Len(b)
    \/ /\ Len(a) = Len(b)
       /\ \E k \in 1..Len(a) :
             /\ a[k] < b[k]
             /\ \A j \in 1..(k - 1) : a[j] = b[j]

\* digit-wise sum of two numerals given least significant digit first
RECURSIVE AddRev(_, _, _)
AddRev(ra, rb, carry) ==
    IF ra = <<>> /\ rb = <<>> THEN (IF carry = 0 THEN <<>> ELSE <<carry>>)
    ELSE LET da == IF ra = <<>> THEN 0 ELSE Head(ra)
             db == IF rb = <<>> THEN 0 ELSE Head(rb)
             sum == da + db + carry
         IN  <<sum % 10>> \o AddRev(IF ra = <<>> THEN <<>> ELSE Tail(ra),
                                    IF rb = <<>> THEN <<>> ELSE Tail(rb),
                                    sum \div 10)

NumAdd(a, b) == NumStrip(Rev(AddRev(Rev(a), Rev(b), 0)))

\* digit-wise product of a numeral (least significant first) and a factor
RECURSIVE MulRev(_, _, _)
MulRev(ra, k, carry) ==
    IF ra = <<>> THEN (IF carry = 0 THEN <<>> ELSE Rev(NumOf(carry)))
    ELSE LET prod == Head(ra) * k + carry
         IN  <<prod % 10>> \o MulRev(Tail(ra), k, prod \div 10)

NumMul(a, k) == NumStrip(Rev(MulRev(Rev(a), k, 0)))

\* digit-wise difference a - b for a >= b, least significant first
RECURSIVE SubRev(_, _, _)
SubRev(ra, rb, borrow) ==
    IF ra = <<>> THEN <<>>
    ELSE LET db == (IF rb = <<>> THEN 0 ELSE Head(rb)) + borrow
             low == Head(ra) < db
         IN  <<(IF low THEN Head(ra) + 10 - db ELSE Head(ra) - db)>>
                \o SubRev(Tail(ra), IF rb = <<>> THEN <<>> ELSE Tail(rb), IF low THEN 1 ELSE 0)

NumSub(a, b) == NumStrip(Rev(SubRev(Rev(a), Rev(b), 0)))

u64Max == NumOfText(u64MaxText)
u64Modulus == NumAdd(u64Max, <<1>>)

\* a modulo m by long division: m shifted by shift decimal places is
\* subtracted as often as it fits, for every shift down to 0
RECURSIVE NumModFrom(_, _, _)
NumModFrom(a, m, shift) ==
    LET shifted == m \o [k \in 1..shift |-> 0]
    IN  IF NumLess(a, shifted)
        THEN (IF shift = 0 THEN a ELSE NumModFrom(a, m, shift - 1))
        ELSE NumModFrom(NumSub(a, shifted), m, shift)

NumMod(a, m) ==
    IF NumLess(a, m) THEN a ELSE NumModFrom(a, m, Len(a) - Len(m))

\* the result of u64 arithmetic whose exact value is a: a itself when it
\* fits, and otherwise an overflow, which aborts a build that checks
\* arithmetic and wraps around in a build that does not
U64Overflows(a) == NumLess(u64Max, a)
U64Wrap(a) == NumMod(a, u64Modulus)

\* str::parse::<u64>
ParseU64(s) ==
    LET t == ParseUnsigned(s, u64MaxText)
    IN  IF t = None THEN None ELSE Some(NumOfText(Unwrap(t)))

\* Duration, held in milliseconds as a numeral: a u64 of seconds never
\* overflows a Duration
from_secs(n) == NumMul(n, 1000)
from_millis(n) == n

parse_color(s) ==
    CASE s = <<"+">> -> Black
      [] s = <<"-">> -> White
      [] OTHER -> Black

Square(file, rank) == <<file, rank>>

parse_square(s) ==
    Square(unwrap_or(to_digit(s[1]), 0), unwrap_or(to_digit(s[2]), 0))

parse_piece_type(s) ==
    CASE s = <<"F", "U">> -> "Pawn"
      [] s = <<"K", "Y">> -> "Lance"
      [] s = <<"K", "E">> -> "Knight"
      [] s = <<"G", "I">> -> "Silver"
      [] s = <<"K", "I">> -> "Gold"
      [] s = <<"K", "A">> -> "Bishop"
      [] s = <<"H", "I">> -> "Rook"
      [] s = <<"O", "U">> -> "King"
      [] s = <<"T", "O">> -> "ProPawn"
      [] s = <<"N", "Y">> -> "ProLance"
      [] s = <<"N", "K">> -> "ProKnight"
      [] s = <<"N", "G">> -> "ProSilver"
      [] s = <<"U", "M">> -> "Horse"
      [] s = <<"R", "Y">> -> "Dragon"
      [] s = <<"A", "L">> -> "All"
      [] OTHER -> "Pawn"

\* for inner in pair.into_inner(): the first child with the rule, if any
RECURSIVE FirstOfRule(_, _)
FirstOfRule(inner, rule) ==
    IF inner = <<>> THEN None
    ELSE IF Head(inner).rule = rule THEN Some(Head(inner))
    ELSE FirstOfRule(Tail(inner), rule)

\* v2_2::parse_time_consumed: whole seconds
v2_2_parse_time_consumed(pair) ==
    LET sc == FirstOfRule(pair.inner, "seconds_consumed")
    IN  IF IsSome(sc)
        THEN from_secs(unwrap_or(ParseU64(Unwrap(sc).text), <<0>>))
        ELSE from_secs(<<0>>)

\* str::find('.'): the position of the first dot (1-based), 0 when absent
RECURSIVE FindDot(_, _)
FindDot(s, i) ==
    IF i > Len(s) THEN 0 ELSE IF s[i] = "." THEN i ELSE FindDot(s, i + 1)

\* secs * 1000 + millis of v3::parse_time_consumed for a text with a dot at
\* dot_pos, as an exact number
V3MillisSum(str, dot_pos) ==
    LET secs == unwrap_or(ParseU64(SubSeq(str, 1, dot_pos - 1)), <<0>>)
        frac_str == SubSeq(str, dot_pos + 1, Len(str))
        millis ==
            CASE Len(frac_str) = 1 -> NumMul(unwrap_or(ParseU64(frac_str), <<0>>), 100)
              [] Len(frac_str) = 2 -> NumMul(unwrap_or(ParseU64(frac_str), <<0>>), 10)
              [] Len(frac_str) = 3 -> unwrap_or(ParseU64(frac_str), <<0>>)
              [] OTHER -> <<0>>
    IN  NumAdd(NumMul(secs, 1000), millis)

\* v3::parse_time_consumed: seconds with an optional fraction of 1-3 digits;
\* the value returned when the u64 arithmetic wraps or does not overflow
v3_parse_time_consumed(pair) ==
    LET sc == FirstOfRule(pair.inner, "seconds_consumed")
    IN  IF IsSome(sc)
        THEN LET str == Unwrap(sc).text
                 dot_pos == FindDot(str, 1)
             IN  IF dot_pos > 0
                 THEN from_millis(U64Wrap(V3MillisSum(str, dot_pos)))
                 ELSE from_secs(unwrap_or(ParseU64(str), <<0>>))
        ELSE from_secs(<<0>>)

\* secs * 1000 + millis overflows u64
v3_time_consumed_overflows(pair) ==
    LET sc == FirstOfRule(pair.inner, "seconds_consumed")
    IN  /\ IsSome(sc)
        /\ FindDot(Unwrap(sc).text, 1) > 0
        /\ U64Overflows(V3MillisSum(Unwrap(sc).text, FindDot(Unwrap(sc).text, 1)))

parse_time_consumed(d, pair) ==
    IF d = "V2_2" THEN v2_2_parse_time_consumed(pair) ELSE v3_parse_time_consumed(pair)

\* the u64 arithmetic of parse_time_consumed overflows: the V3.0 one only
parse_time_consumed_overflows(d, pair) ==
    d = "V3" /\ v3_time_consumed_overflows(pair)

-----------------------------------------------------------------------------
(* Actions of the move stream *)

\* a variant that takes the first square as the destination
RECURSIVE NormalMoveFoldMutSwapped(_, _)
NormalMoveFoldMutSwapped(inner, acc) ==
    IF inner = <<>> THEN acc
    ELSE LET n == Head(inner)
             next ==
                 CASE n.rule = "color" -> [acc EXCEPT ![1] = parse_color(n.text)]
                   [] n.rule = "square" ->
                        IF acc[5] = 0
                        THEN [acc EXCEPT ![3] = parse_square(n.text), ![5] = acc[5] + 1]
                        ELSE [acc EXCEPT ![2] = parse_square(n.text), ![5] = acc[5] + 1]
                   [] n.rule = "piece_type" -> [acc EXCEPT ![4] = parse_piece_type(n.text)]
                   [] OTHER -> acc
         IN  NormalMoveFoldMutSwapped(Tail(inner), next)

\* parse_normal_move: the loop over the children, folded; acc is
\* <<color, from, to, piece, square_count>>
RECURSIVE NormalMoveFold(_, _)
NormalMoveFold(inner, acc) ==
    IF inner = <<>> THEN acc
    ELSE LET n == Head(inner)
             next ==
                 CASE n.rule = "color" -> [acc EXCEPT ![1] = parse_color(n.text)]
                   [] n.rule = "square" ->
                        IF acc[5] = 0
                        THEN [acc EXCEPT ![2] = parse_square(n.text), ![5] = acc[5] + 1]
                        ELSE [acc EXCEPT ![3] = parse_square(n.text), ![5] = acc[5] + 1]
                   [] n.rule = "piece_type" -> [acc EXCEPT ![4] = parse_piece_type(n.text)]
                   [] OTHER -> acc
         IN  NormalMoveFold(Tail(inner), next)

parse_normal_move(pair) ==
    LET r == NormalMoveFold(pair.inner, <<Black, Square(0, 0), Square(0, 0), "Pawn", 0>>)
    IN  ActMove(r[1], r[2], r[3], r[4])

parse_special_move(d, s) ==
    IF d = "V2_2" THEN v2_2_parse_special_move(s) ELSE v3_parse_special_move(s)

\* parse_move_record_action: the first normal_move or special_move child
\* decides; a node with neither is Action::Error
RECURSIVE MoveRecordActionFold(_, _)
MoveRecordActionFold(d, inner) ==
    IF inner = <<>> THEN ActError
    ELSE IF Head(inner).rule = "normal_move" THEN parse_normal_move(Head(inner))
    ELSE IF Head(inner).rule = "special_move" THEN parse_special_move(d, Head(inner).text)
    ELSE MoveRecordActionFold(d, Tail(inner))

parse_move_record_action(d, pair) == MoveRecordActionFold(d, pair.inner)

-----------------------------------------------------------------------------
(* Move-stream assembler: parse_move_records *)

MoveRecord(action, time) == [action |-> action, time |-> time]

\* the state of the loop: the records pushed so far and the pending slot
AssemblerStart == [moves |-> <<>>, pending |-> None]

\* a variant that overwrites the pending action without flushing it
OnMoveRecordMutOverwrite(d, st, node) ==
    [moves |-> st.moves,
     pending |-> Some(parse_move_record_action(d, node))]

\* Rule::move_record arm: flush a pending action without time, keep the new one
OnMoveRecord(d, st, node) ==
    [moves |-> IF IsSome(st.pending)
               THEN Append(st.moves, MoveRecord(Unwrap(st.pending), None))
               ELSE st.moves,
     pending |-> Some(parse_move_record_action(d, node))]

\* a variant that leaves the pending action in place
OnTimeConsumedMutKeepPending(d, st, node) ==
    IF IsSome(st.pending)
    THEN [moves |-> st.moves, pending |-> st.pending]
    ELSE st

\* a variant that, with nothing pending, writes the time into the record
\* emitted last
OnTimeConsumedMutAttachLast(d, st, node) ==
    IF IsSome(st.pending)
    THEN [moves |-> Append(st.moves,
                           MoveRecord(Unwrap(st.pending), Some(parse_time_consumed(d, node)))),
          pending |-> None]
    ELSE IF st.moves = <<>> THEN st
    ELSE [moves |-> [st.moves EXCEPT ![Len(st.moves)].time = Some(parse_time_consumed(d, node))],
          pending |-> None]

\* Rule::time_consumed arm: flush a pending action with the parsed time
OnTimeConsumed(d, st, node) ==
    IF IsSome(st.pending)
    THEN [moves |-> Append(st.moves,
                           MoveRecord(Unwrap(st.pending), Some(parse_time_consumed(d, node)))),
          pending |-> None]
    ELSE st

\* after the loop: a still pending action is pushed without time
AfterLastNode(st) ==
    [moves |-> IF IsSome(st.pending)
               THEN Append(st.moves, MoveRecord(Unwrap(st.pending), None))
               ELSE st.moves,
     pending |-> None]

\* one iteration of the loop: match inner.as_rule()
AssemblerStep(d, st, node) ==
    CASE node.rule = "move_record" -> OnMoveRecord(d, st, node)
      [] node.rule = "time_consumed" -> OnTimeConsumed(d, st, node)
      [] OTHER -> st

RECURSIVE AssemblerFold(_, _, _)
AssemblerFold(d, st, nodes) ==
    IF nodes = <<>> THEN st
    ELSE AssemblerFold(d, AssemblerStep(d, st, Head(nodes)), Tail(nodes))

parse_move_records(d, pair) ==
    AfterLastNode(AssemblerFold(d, AssemblerStart, pair.inner)).moves

\* the Rule::time_consumed arm reaches an overflowing parse_time_consumed:
\* it is called only for a pending action
OnTimeConsumedOverflows(d, st, node) ==
    IsSome(st.pending) /\ parse_time_consumed_overflows(d, node)

\* some iteration of the loop of parse_move_records overflows
RECURSIVE AssemblerFoldOverflows(_, _, _)
AssemblerFoldOverflows(d, st, nodes) ==
    /\ nodes # <<>>
    /\ \/ (Head(nodes).rule = "time_consumed" /\ OnTimeConsumedOverflows(d, st, Head(nodes)))
       \/ AssemblerFoldOverflows(d, AssemblerStep(d, st, Head(nodes)), Tail(nodes))

parse_move_records_overflows(d, pair) ==
    AssemblerFoldOverflows(d, AssemblerStart, pair.inner)

-----------------------------------------------------------------------------
(* Position assembler *)

\* Position::default() (crate::value): nothing removed, no grid, nothing
\* placed, Black to move
PositionDefault ==
    [drop_pieces |-> <<>>, bulk |-> None, minishogi_bulk |-> None,
     wildcat_bulk |-> None, add_pieces |-> <<>>, side_to_move |-> Black]

\* the (square, piece_type) pair of a handicap_piece / placement_piece node:
\* Square(0, 0) and Pawn unless a child sets them; a later child overrides
RECURSIVE SquarePieceFold(_, _)
SquarePieceFold(inner, acc) ==
    IF inner = <<>> THEN acc
    ELSE LET n == Head(inner)
             next ==
                 CASE n.rule = "square" -> <<parse_square(n.text), acc[2]>>
                   [] n.rule = "piece_type" -> <<acc[1], parse_piece_type(n.text)>>
                   [] OTHER -> acc
         IN  SquarePieceFold(Tail(inner), next)

SquarePiece(node) == SquarePieceFold(node.inner, <<Square(0, 0), "Pawn">>)

\* parse_handicap: one pair per handicap_piece child
RECURSIVE HandicapFold(_)
HandicapFold(inner) ==
    IF inner = <<>> THEN <<>>
    ELSE IF Head(inner).rule = "handicap_piece"
         THEN <<SquarePiece(Head(inner))>> \o HandicapFold(Tail(inner))
         ELSE HandicapFold(Tail(inner))

parse_handicap(pair) == HandicapFold(pair.inner)

\* parse_grid_piece (v2_2), inlined in v3::parse_grid_cell: <<color, piece>>,
\* Black and Pawn unless a child sets them
RECURSIVE GridPieceFold(_, _)
GridPieceFold(inner, acc) ==
    IF inner = <<>> THEN acc
    ELSE LET n == Head(inner)
             next ==
                 CASE n.rule = "color" -> <<parse_color(n.text), acc[2]>>
                   [] n.rule = "piece_type" -> <<acc[1], parse_piece_type(n.text)>>
                   [] OTHER -> acc
         IN  GridPieceFold(Tail(inner), next)

parse_grid_piece(pair) == GridPieceFold(pair.inner, <<Black, "Pawn">>)

\* parse_grid_cell: the first grid_piece or grid_empty child decides
RECURSIVE GridCellFold(_)
GridCellFold(inner) ==
    IF inner = <<>> THEN None
    ELSE IF Head(inner).rule = "grid_piece" THEN Some(parse_grid_piece(Head(inner)))
    ELSE IF Head(inner).rule = "grid_empty" THEN None
    ELSE GridCellFold(Tail(inner))

parse_grid_cell(pair) == GridCellFold(pair.inner)

\* [[None; width]; height]; rows and columns are numbered from 1 here,
\* from 0 in the source
EmptyGrid(height, width) == [r \in 1..height |-> [c \in 1..width |-> None]]

GridRowRules ==
    <<"grid_row1", "grid_row2", "grid_row3", "grid_row4", "grid_row5",
      "grid_row6", "grid_row7", "grid_row8", "grid_row9">>
MiniRowRules == <<"mini_row1", "mini_row2", "mini_row3", "mini_row4", "mini_row5">>
WildcatRowRules ==
    <<"wildcat_row1", "wildcat_row2", "wildcat_row3", "wildcat_row4", "wildcat_row5">>

\* let row_num = match inner.as_rule(): the row of the rule, 0 for None
RowNum(rules, rule) ==
    IF \E k \in 1..Len(rules) : rules[k] = rule
    THEN CHOOSE k \in 1..Len(rules) : rules[k] = rule
    ELSE 0

\* a variant without the test col < width: a cell beyond the row width
\* lands on the last column
RECURSIVE FillRowMutOverwriteLast(_, _, _, _)
FillRowMutOverwriteLast(cols, cells, col, width) ==
    IF cells = <<>> THEN cols
    ELSE IF Head(cells).rule = "grid_cell"
         THEN FillRowMutOverwriteLast(
                  [cols EXCEPT ![IF col < width THEN col + 1 ELSE width] =
                                   parse_grid_cell(Head(cells))],
                  Tail(cells), col + 1, width)
         ELSE FillRowMutOverwriteLast(cols, Tail(cells), col, width)

\* the inner loop over the cells of one row: cols is grid[row_idx], col
\* counts the cells stored
RECURSIVE FillRow(_, _, _, _)
FillRow(cols, cells, col, width) ==
    IF cells = <<>> THEN cols
    ELSE IF Head(cells).rule = "grid_cell" /\ col < width
         THEN FillRow([cols EXCEPT ![col + 1] = parse_grid_cell(Head(cells))],
                      Tail(cells), col + 1, width)
         ELSE FillRow(cols, Tail(cells), col, width)

\* the outer loop over the children of the grid node
RECURSIVE FillGrid(_, _, _, _)
FillGrid(grid, inner, rules, width) ==
    IF inner = <<>> THEN grid
    ELSE LET row == RowNum(rules, Head(inner).rule)
         IN  IF row # 0
             THEN FillGrid([grid EXCEPT ![row] = FillRow(grid[row], Head(inner).inner, 0, width)],
                           Tail(inner), rules, width)
             ELSE FillGrid(grid, Tail(inner), rules, width)

parse_grid(pair) == FillGrid(EmptyGrid(9, 9), pair.inner, GridRowRules, 9)

parse_minishogi_grid(pair) == FillGrid(EmptyGrid(5, 5), pair.inner, MiniRowRules, 5)

parse_wildcat_grid(pair) == FillGrid(EmptyGrid(5, 3), pair.inner, WildcatRowRules, 3)

\* v2_2::parse_single_placement: <<colour of the line, its (square, piece) pairs>>;
\* the colour is Black until a color child sets it
RECURSIVE SinglePlacementFold(_, _)
SinglePlacementFold(inner, acc) ==
    IF inner = <<>> THEN acc
    ELSE LET n == Head(inner)
             next ==
                 CASE n.rule = "color" -> <<parse_color(n.text), acc[2]>>
                   [] n.rule = "placement_piece" -> <<acc[1], Append(acc[2], SquarePiece(n))>>
                   [] OTHER -> acc
         IN  SinglePlacementFold(Tail(inner), next)

\* a variant that never reads the colour sign of the line
parse_single_placementMutNoSign(pair) ==
    SinglePlacementFold(SelectSeq(pair.inner, LAMBDA n : n.rule # "color"), <<Black, <<>>>>)

parse_single_placement(pair) == SinglePlacementFold(pair.inner, <<Black, <<>>>>)

\* v2_2::parse_piece_placements: every pair of a line takes the colour the
\* line ended with
RECURSIVE V22PlacementsFold(_)
V22PlacementsFold(inner) ==
    IF inner = <<>> THEN <<>>
    ELSE IF Head(inner).rule = "piece_placement"
         THEN LET sp == parse_single_placement(Head(inner))
              IN  [k \in 1..Len(sp[2]) |-> <<sp[1], sp[2][k][1], sp[2][k][2]>>]
                     \o V22PlacementsFold(Tail(inner))
         ELSE V22PlacementsFold(Tail(inner))

v2_2_parse_piece_placements(pair) == V22PlacementsFold(pair.inner)

\* v3::parse_piece_placements: every pair is pushed at once, with the colour
\* read so far on its line; acc is <<colour, triples of the line>>
RECURSIVE V3LineFold(_, _)
V3LineFold(inner, acc) ==
    IF inner = <<>> THEN acc
    ELSE LET n == Head(inner)
             next ==
                 CASE n.rule = "color" -> <<parse_color(n.text), acc[2]>>
                   [] n.rule = "placement_piece" ->
                        <<acc[1], Append(acc[2], <<acc[1], SquarePiece(n)[1], SquarePiece(n)[2]>>)>>
                   [] OTHER -> acc
         IN  V3LineFold(Tail(inner), next)

RECURSIVE V3PlacementsFold(_)
V3PlacementsFold(inner) ==
    IF inner = <<>> THEN <<>>
    ELSE IF Head(inner).rule = "piece_placement"
         THEN V3LineFold(Head(inner).inner, <<Black, <<>>>>)[2] \o V3PlacementsFold(Tail(inner))
         ELSE V3PlacementsFold(Tail(inner))

v3_parse_piece_placements(pair) == V3PlacementsFold(pair.inner)

\* a variant whose minishogi arm also populates bulk
V22PositionArmMutAlsoBulk(pos, n) ==
    CASE n.rule = "handicap" -> [pos EXCEPT !.drop_pieces = parse_handicap(n)]
      [] n.rule = "grid" -> [pos EXCEPT !.bulk = Some(parse_grid(n))]
      [] n.rule = "minishogi_grid" ->
            [pos EXCEPT !.minishogi_bulk = Some(parse_minishogi_grid(n)),
                        !.bulk = Some(EmptyGrid(9, 9))]
      [] n.rule = "wildcat_grid" -> [pos EXCEPT !.wildcat_bulk = Some(parse_wildcat_grid(n))]
      [] n.rule = "piece_placement_lines" ->
            [pos EXCEPT !.add_pieces = v2_2_parse_piece_placements(n)]
      [] OTHER -> pos

\* the match of v2_2::parse_position on one child of the position node
V22PositionArm(pos, n) ==
    CASE n.rule = "handicap" -> [pos EXCEPT !.drop_pieces = parse_handicap(n)]
      [] n.rule = "grid" -> [pos EXCEPT !.bulk = Some(parse_grid(n))]
      [] n.rule = "minishogi_grid" ->
            [pos EXCEPT !.minishogi_bulk = Some(parse_minishogi_grid(n))]
      [] n.rule = "wildcat_grid" -> [pos EXCEPT !.wildcat_bulk = Some(parse_wildcat_grid(n))]
      [] n.rule = "piece_placement_lines" ->
            [pos EXCEPT !.add_pieces = v2_2_parse_piece_placements(n)]
      [] OTHER -> pos

\* the match of v3::parse_position: the 9x9 grid only
V3PositionArm(pos, n) ==
    CASE n.rule = "handicap" -> [pos EXCEPT !.drop_pieces = parse_handicap(n)]
      [] n.rule = "grid" -> [pos EXCEPT !.bulk = Some(parse_grid(n))]
      [] n.rule = "piece_placement_lines" ->
            [pos EXCEPT !.add_pieces = v3_parse_piece_placements(n)]
      [] OTHER -> pos

RECURSIVE PositionFold(_, _, _)
PositionFold(d, pos, inner) ==
    IF inner = <<>> THEN pos
    ELSE PositionFold(d,
                      IF d = "V2_2" THEN V22PositionArm(pos, Head(inner))
                      ELSE V3PositionArm(pos, Head(inner)),
                      Tail(inner))

v2_2_parse_position(pair) == PositionFold("V2_2", PositionDefault, pair.inner)

v3_parse_position(pair) == PositionFold("V3", PositionDefault, pair.inner)

parse_position(d, pair) ==
    IF d = "V2_2" THEN v2_2_parse_position(pair) ELSE v3_parse_position(pair)

\* parse_side_to_move: the first color child, Black without one
parse_side_to_move(pair) ==
    LET c == FirstOfRule(pair.inner, "color")
    IN  IF IsSome(c) THEN parse_color(Unwrap(c).text) ELSE Black

\* parse_player_name: the first player_name child with a non-empty text
RECURSIVE PlayerNameFold(_)
PlayerNameFold(inner) ==
    IF inner = <<>> THEN None
    ELSE IF Head(inner).rule = "player_name" /\ Head(inner).text # <<>>
         THEN Some(Head(inner).text)
         ELSE PlayerNameFold(Tail(inner))

parse_player_name(pair) == PlayerNameFold(pair.inner)

-----------------------------------------------------------------------------
(* Temporal parsers and game attributes *)

\* str::split(c): the pieces between the separators, at least one piece
RECURSIVE SplitOn(_, _, _)
SplitOn(s, c, cur) ==
    IF s = <<>> THEN <<cur>>
    ELSE IF Head(s) = c THEN <<cur>> \o SplitOn(Tail(s), c, <<>>)
    ELSE SplitOn(Tail(s), c, Append(cur, Head(s)))

Split(s, c) == SplitOn(s, c, <<>>)

\* Month::try_from(u8)
MonthTryFrom(m) == IF m \in 1..12 THEN Some(m) ELSE None

IsLeapYear(y) == (y % 4 = 0) /\ ((y % 100 # 0) \/ (y % 400 = 0))

DaysInMonth(y, m) ==
    CASE m \in {1, 3, 5, 7, 8, 10, 12} -> 31
      [] m \in {4, 6, 9, 11} -> 30
      [] OTHER -> IF IsLeapYear(y) THEN 29 ELSE 28

\* time::Date::from_calendar_date: years -9999..9999, a day of the month
from_calendar_date(y, m, d) ==
    IF y \in (0 - 9999)..9999 /\ d \in 1..DaysInMonth(y, m) THEN Some(<<y, m, d>>) ELSE None

\* time::Time::from_hms
from_hms(h, m, sec) ==
    IF h < 24 /\ m < 60 /\ sec < 60 THEN Some(<<h, m, sec>>) ELSE None

\* the date of a "Y/M/D" text: three pieces, each a number, a calendar date
ParseDate(date_str) ==
    LET date_parts == Split(date_str, "/")
    IN  IF Len(date_parts) # 3 THEN None
        ELSE LET year == ParseI32(date_parts[1])
                 month == ParseU8(date_parts[2])
                 day == ParseU8(date_parts[3])
             IN  IF year = None \/ month = None \/ day = None THEN None
                 ELSE IF MonthTryFrom(Unwrap(month)) = None THEN None
                 ELSE from_calendar_date(Unwrap(year), Unwrap(month), Unwrap(day))

\* the clock time of an "H:M:S" text of three pieces: "Err" stands for the
\* failure of one of the `?` conversions
ParseClock(time_parts) ==
    LET hour == ParseU8(time_parts[1])
        minute == ParseU8(time_parts[2])
        second == ParseU8(time_parts[3])
    IN  IF hour = None \/ minute = None \/ second = None THEN None
        ELSE from_hms(Unwrap(hour), Unwrap(minute), Unwrap(second))

Time(date, time) == [date |-> date, time |-> time]

\* v2_2::parse_datetime_parts: a time text that is not three pieces is
\* dropped, a piece that does not convert makes the whole result None
parse_datetime_parts(date_str, time_str) ==
    LET date == ParseDate(date_str)
    IN  IF date = None THEN None
        ELSE IF time_str = None THEN Some(Time(Unwrap(date), None))
        ELSE LET time_parts == Split(Unwrap(time_str), ":")
             IN  IF Len(time_parts) # 3 THEN Some(Time(Unwrap(date), None))
                 ELSE IF ParseClock(time_parts) = None THEN None
                 ELSE Some(Time(Unwrap(date), ParseClock(time_parts)))

\* the date and time children of a datetime node: the last of each rule
RECURSIVE DateTimeFold(_, _)
DateTimeFold(inner, acc) ==
    IF inner = <<>> THEN acc
    ELSE LET n == Head(inner)
             next ==
                 CASE n.rule = "date" -> [acc EXCEPT !.date_str = Some(n.text)]
                   [] n.rule = "time" -> [acc EXCEPT !.time_str = Some(n.text)]
                   [] OTHER -> acc
         IN  DateTimeFold(Tail(inner), next)

v2_2_parse_datetime(pair) ==
    LET acc == DateTimeFold(pair.inner, [date_str |-> None, time_str |-> None])
    IN  IF acc.date_str = None THEN None
        ELSE parse_datetime_parts(Unwrap(acc.date_str), acc.time_str)

\* v3::parse_datetime: the time is converted inside its own closure, so a
\* time that does not convert is dropped and the date is kept
v3_parse_datetime(pair) ==
    LET acc == DateTimeFold(pair.inner, [date_str |-> None, time_str |-> None])
    IN  IF acc.date_str = None THEN None
        ELSE LET date == ParseDate(Unwrap(acc.date_str))
                 time ==
                     IF acc.time_str = None THEN None
                     ELSE LET parts == Split(Unwrap(acc.time_str), ":")
                          IN  IF Len(parts) # 3 THEN None ELSE ParseClock(parts)
             IN  IF date = None THEN None ELSE Some(Time(Unwrap(date), time))

parse_datetime(d, pair) ==
    IF d = "V2_2" THEN v2_2_parse_datetime(pair) ELSE v3_parse_datetime(pair)

\* v2_2::try_parse_datetime_str: "date[ time]", split on every space
try_parse_datetime_str(s) ==
    LET parts == Split(s, " ")
    IN  IF Len(parts) = 0 THEN None
        ELSE parse_datetime_parts(parts[1], IF Len(parts) >= 2 THEN Some(parts[2]) ELSE None)

TimeLimit(main_time, byoyomi) == [main_time |-> main_time, byoyomi |-> byoyomi]

\* the three sub-fields of a timelimit node; a text that does not convert
\* counts 0
RECURSIVE TimeLimitFold(_, _)
TimeLimitFold(inner, acc) ==
    IF inner = <<>> THEN acc
    ELSE LET n == Head(inner)
             next ==
                 CASE n.rule = "timelimit_hours" ->
                        [acc EXCEPT !.hours = unwrap_or(ParseU64(n.text), <<0>>)]
                   [] n.rule = "timelimit_minutes" ->
                        [acc EXCEPT !.minutes = unwrap_or(ParseU64(n.text), <<0>>)]
                   [] n.rule = "timelimit_byoyomi" ->
                        [acc EXCEPT !.byoyomi = unwrap_or(ParseU64(n.text), <<0>>)]
                   [] OTHER -> acc
         IN  TimeLimitFold(Tail(inner), next)

TimeLimitFields(pair) ==
    TimeLimitFold(pair.inner, [hours |-> <<0>>, minutes |-> <<0>>, byoyomi |-> <<0>>])

\* hours * 3600 + minutes * 60 as an exact number
MainSeconds(hours, minutes) == NumAdd(NumMul(hours, 3600), NumMul(minutes, 60))

\* parse_timelimit, the same in both dialects; the value returned when the
\* u64 arithmetic wraps or does not overflow
parse_timelimit(pair) ==
    LET acc == TimeLimitFields(pair)
    IN  TimeLimit(from_secs(U64Wrap(MainSeconds(acc.hours, acc.minutes))),
                  from_secs(acc.byoyomi))

\* hours * 3600 + minutes * 60 overflows u64 in parse_timelimit
parse_timelimit_overflows(pair) ==
    U64Overflows(MainSeconds(TimeLimitFields(pair).hours, TimeLimitFields(pair).minutes))

\* the three numbers of "HH:MM+SS", None unless the text has that shape and
\* every piece converts
TimeLimitStrFields(s) ==
    LET parts == Split(s, "+")
    IN  IF Len(parts) # 2 THEN None
        ELSE LET time_parts == Split(parts[1], ":")
             IN  IF Len(time_parts) # 2 THEN None
                 ELSE LET hours == ParseU64(time_parts[1])
                          minutes == ParseU64(time_parts[2])
                          byoyomi == ParseU64(parts[2])
                      IN  IF hours = None \/ minutes = None \/ byoyomi = None THEN None
                          ELSE Some([hours |-> Unwrap(hours), minutes |-> Unwrap(minutes),
                                     byoyomi |-> Unwrap(byoyomi)])

\* v2_2::try_parse_timelimit_str; the value returned when the u64 arithmetic
\* wraps or does not overflow
try_parse_timelimit_str(s) ==
    LET f == TimeLimitStrFields(s)
    IN  IF f = None THEN None
        ELSE Some(TimeLimit(
                 from_secs(U64Wrap(MainSeconds(Unwrap(f).hours, Unwrap(f).minutes))),
                 from_secs(Unwrap(f).byoyomi)))

\* hours * 3600 + minutes * 60 overflows u64 in try_parse_timelimit_str
try_parse_timelimit_str_overflows(s) ==
    LET f == TimeLimitStrFields(s)
    IN  f # None /\ U64Overflows(MainSeconds(Unwrap(f).hours, Unwrap(f).minutes))

keyEvent == <<"E", "V", "E", "N", "T">>
keySite == <<"S", "I", "T", "E">>
keyOpening == <<"O", "P", "E", "N", "I", "N", "G">>
keyStartTime == <<"S", "T", "A", "R", "T", "_", "T", "I", "M", "E">>
keyEndTime == <<"E", "N", "D", "_", "T", "I", "M", "E">>
keyTimeLimit == <<"T", "I", "M", "E", "_", "L", "I", "M", "I", "T">>

\* a variant whose attr_text arm takes EVENT for the site
V22AttrTextMutEventAsSite(key, text, rec) ==
    CASE key = keyEvent -> [rec EXCEPT !.site = Some(text)]
      [] key = keySite -> [rec EXCEPT !.site = Some(text)]
      [] key = keyOpening -> [rec EXCEPT !.opening = Some(text)]
      [] OTHER -> rec

\* Rule::attr_text arm of v2_2::parse_game_attr
V22AttrText(key, text, rec) ==
    CASE key = keyEvent -> [rec EXCEPT !.event = Some(text)]
      [] key = keySite -> [rec EXCEPT !.site = Some(text)]
      [] key = keyOpening -> [rec EXCEPT !.opening = Some(text)]
      [] key = keyStartTime -> [rec EXCEPT !.start_time = try_parse_datetime_str(text)]
      [] key = keyEndTime -> [rec EXCEPT !.end_time = try_parse_datetime_str(text)]
      [] key = keyTimeLimit -> [rec EXCEPT !.time_limit = try_parse_timelimit_str(text)]
      [] OTHER -> rec

\* Rule::attr_text arm of v3::parse_game_attr
V3AttrText(key, text, rec) ==
    CASE key = keyEvent -> [rec EXCEPT !.event = Some(text)]
      [] key = keySite -> [rec EXCEPT !.site = Some(text)]
      [] key = keyOpening -> [rec EXCEPT !.opening = Some(text)]
      [] OTHER -> rec

\* a variant whose timelimit arm does not look at the key
AttrValueArmMutAnyKey(d, key, n, rec) ==
    CASE n.rule = "datetime" ->
            (CASE key = keyStartTime -> [rec EXCEPT !.start_time = parse_datetime(d, n)]
               [] key = keyEndTime -> [rec EXCEPT !.end_time = parse_datetime(d, n)]
               [] OTHER -> rec)
      [] n.rule = "timelimit" -> [rec EXCEPT !.time_limit = Some(parse_timelimit(n))]
      [] n.rule = "attr_text" ->
            IF d = "V2_2" THEN V22AttrText(key, n.text, rec) ELSE V3AttrText(key, n.text, rec)
      [] OTHER -> rec

\* one child of the attr_value node
AttrValueArm(d, key, n, rec) ==
    CASE n.rule = "datetime" ->
            (CASE key = keyStartTime -> [rec EXCEPT !.start_time = parse_datetime(d, n)]
               [] key = keyEndTime -> [rec EXCEPT !.end_time = parse_datetime(d, n)]
               [] OTHER -> rec)
      [] n.rule = "timelimit" ->
            IF key = keyTimeLimit
            THEN [rec EXCEPT !.time_limit = Some(parse_timelimit(n))]
            ELSE rec
      [] n.rule = "attr_text" ->
            IF d = "V2_2" THEN V22AttrText(key, n.text, rec) ELSE V3AttrText(key, n.text, rec)
      [] OTHER -> rec

RECURSIVE AttrValueFold(_, _, _, _)
AttrValueFold(d, key, inner, rec) ==
    IF inner = <<>> THEN rec
    ELSE AttrValueFold(d, key, Tail(inner), AttrValueArm(d, key, Head(inner), rec))

\* the children of the game_attr node: st is <<key, record>>
RECURSIVE GameAttrFold(_, _, _)
GameAttrFold(d, inner, st) ==
    IF inner = <<>> THEN st
    ELSE LET n == Head(inner)
             next ==
                 CASE n.rule = "attr_key" -> <<n.text, st[2]>>
                   [] n.rule = "attr_value" -> <<st[1], AttrValueFold(d, st[1], n.inner, st[2])>>
                   [] OTHER -> st
         IN  GameAttrFold(d, Tail(inner), next)

\* parse_game_attr(pair, &mut record): the record afterwards
parse_game_attr(d, pair, rec) == GameAttrFold(d, pair.inner, <<<<>>, rec>>)[2]

\* one child of the attr_value node reaches an overflowing time-limit sum
AttrValueArmOverflows(d, key, n) ==
    \/ (n.rule = "timelimit" /\ key = keyTimeLimit /\ parse_timelimit_overflows(n))
    \/ (n.rule = "attr_text" /\ d = "V2_2" /\ key = keyTimeLimit
           /\ try_parse_timelimit_str_overflows(n.text))

\* some child of the game_attr node overflows; key is the key read so far
RECURSIVE GameAttrFoldOverflows(_, _, _)
GameAttrFoldOverflows(d, inner, key) ==
    /\ inner # <<>>
    /\ LET n == Head(inner)
       IN  \/ (n.rule = "attr_value"
                 /\ \E k \in 1..Len(n.inner) : AttrValueArmOverflows(d, key, n.inner[k]))
           \/ GameAttrFoldOverflows(d, Tail(inner), IF n.rule = "attr_key" THEN n.text ELSE key)

parse_game_attr_overflows(d, pair) == GameAttrFoldOverflows(d, pair.inner, <<>>)

-----------------------------------------------------------------------------
(* The top-level walk of v2_2::parse and v3::parse *)

\* GameRecord::default() (crate::value)
GameRecordDefault ==
    [black_player |-> None, white_player |-> None, event |-> None,
     site |-> None, opening |-> None, start_time |-> None, end_time |-> None,
     time_limit |-> None, start_pos |-> PositionDefault, moves |-> <<>>]

\* a variant without the final_move arm
OnFinalMoveMutIgnored(d, rec, node) == rec

\* Rule::final_move arm: the action is pushed without time
OnFinalMove(d, rec, node) ==
    [rec EXCEPT !.moves =
        Append(rec.moves, MoveRecord(parse_move_record_action(d, node), None))]

\* the rules of game_record children that have an arm in the match
WalkedRules ==
    {"black_player", "white_player", "game_attr", "position", "side_to_move",
     "move_records", "final_move"}

\* the other arms of the match, one operator each
OnBlackPlayer(rec, node) == [rec EXCEPT !.black_player = parse_player_name(node)]
OnWhitePlayer(rec, node) == [rec EXCEPT !.white_player = parse_player_name(node)]
OnGameAttr(d, rec, node) == parse_game_attr(d, node, rec)
OnPosition(d, rec, node) == [rec EXCEPT !.start_pos = parse_position(d, node)]
\* a variant that stores a fresh position holding the side to move
OnSideToMoveMutWholePosition(rec, node) ==
    [rec EXCEPT !.start_pos = [PositionDefault EXCEPT !.side_to_move = parse_side_to_move(node)]]

OnSideToMove(rec, node) == [rec EXCEPT !.start_pos.side_to_move = parse_side_to_move(node)]
OnMoveRecords(d, rec, node) == [rec EXCEPT !.moves = parse_move_records(d, node)]

\* match inner.as_rule(): what one child of game_record does to the record
WalkArm(d, rec, node) ==
    CASE node.rule = "black_player" -> OnBlackPlayer(rec, node)
      [] node.rule = "white_player" -> OnWhitePlayer(rec, node)
      [] node.rule = "game_attr" -> OnGameAttr(d, rec, node)
      [] node.rule = "position" -> OnPosition(d, rec, node)
      [] node.rule = "side_to_move" -> OnSideToMove(rec, node)
      [] node.rule = "move_records" -> OnMoveRecords(d, rec, node)
      [] node.rule = "final_move" -> OnFinalMove(d, rec, node)
      [] OTHER -> rec

RECURSIVE WalkFold(_, _, _)
WalkFold(d, rec, inner) ==
    IF inner = <<>> THEN rec
    ELSE WalkFold(d, WalkArm(d, rec, Head(inner)), Tail(inner))

\* the record parse returns for the root node game_record
transform(d, root) == WalkFold(d, GameRecordDefault, root.inner)

-----------------------------------------------------------------------------
(* Inputs of the detector and facade *)

MaxLines == 3

\* the token between white space: an ideographic space and a form feed
\* before it, a carriage return at the end of the line
lineV22Pad == <<"U+3000", "\f", "V", "2", ".", "2", "\t", "\r">>
\* the token after a character that is no white space
lineAccent == <<"U+00E9", "V", "2", ".", "2">>
lineV1 == <<"V", "1">>
lineV23 == <<"V", "2", ".", "3">>
linePI == <<"P", "I">>
lineCmt == <<"'", "c">>
lineEnc == <<"'", "C", "S", "A", " ", "e", "n", "c", "o", "d", "i", "n", "g", "=", "U">>
\* a space and an em space
lineBlank == <<" ", "U+2003">>

LineTexts ==
    {tokV2, tokV2_1, tokV2_2, tokV3_0, lineV22Pad, lineV1, lineV23,
     linePI, lineCmt, lineEnc, lineBlank, lineAccent}

\* the lines joined by "\n", with a terminator after the last one iff term
RECURSIVE Join(_, _)
Join(ls, term) ==
    IF ls = <<>> THEN <<>>
    ELSE IF Len(ls) = 1 THEN Head(ls) \o (IF term THEN <<"\n">> ELSE <<>>)
    ELSE Head(ls) \o <<"\n">> \o Join(Tail(ls), term)

\* the texts of up to MaxLines of these lines
LineInputTexts ==
    {Join(ls, term) : ls \in UNION {[1..n -> LineTexts] : n \in 0..MaxLines},
                      term \in BOOLEAN}

-----------------------------------------------------------------------------
(* Inputs of the event classifier: "%" [sign] KEYWORD *)

kwIllegalAction == SubSeq(kwPlusIllegalAction, 2, Len(kwPlusIllegalAction))
kwUnknown == <<"X", "Y", "Z">>

EventKeywords ==
    {kwToryo, kwChudan, kwSennichite, kwTimeUp, kwIllegalMove, kwIllegalAction,
     kwJishogi, kwKachi, kwHikiwake, kwMatta, kwMaxMoves, kwTsumi, kwFuzumi,
     kwUnknown}

EventToken(sign, kw) == <<"%">> \o sign \o kw

EventTokens == {EventToken(sg, kw) : sg \in {<<>>, <<"+">>, <<"-">>}, kw \in EventKeywords}

-----------------------------------------------------------------------------
(* The nodes the dialect grammars (grammar.pest) produce for the lines of the
   move section, after the wire format: "+xxyyPP" / "-xxyyPP" is a move,
   "%NAME" an event, "Txx" an elapsed time *)

GrammarNormalMove(line) ==
    Node("normal_move", line,
         << Leaf("color", SubSeq(line, 1, 1)),
            Leaf("square", SubSeq(line, 2, 3)),
            Leaf("square", SubSeq(line, 4, 5)),
            Leaf("piece_type", SubSeq(line, 6, 7)) >>)

GrammarSpecialMove(line) == Leaf("special_move", line)

GrammarMoveRecord(line) ==
    Node("move_record", line,
         IF Head(line) = "%" THEN <<GrammarSpecialMove(line)>>
         ELSE <<GrammarNormalMove(line)>>)

GrammarTimeConsumed(line) ==
    Node("time_consumed", line, <<Leaf("seconds_consumed", Tail(line))>>)

\* a move_record node holding neither a normal move nor an event
EmptyMoveRecord == Node("move_record", <<>>, <<>>)

-----------------------------------------------------------------------------
(* Inputs of the move-stream assembler *)

MaxNodes == 4

lineMove == <<"+", "2", "7", "2", "6", "F", "U">>
lineToryo == EventToken(<<>>, kwToryo)
lineT12 == <<"T", "1", "2">>
lineT0 == <<"T", "0">>
lineT15_12 == <<"T", "1", "5", ".", "1", "2">>
\* 18446744073709552 s is more than u64::MAX milliseconds
lineTOverflow ==
    <<"T", "1", "8", "4", "4", "6", "7", "4", "4", "0", "7", "3", "7", "0", "9", "5", "5", "2",
      ".", "1">>

ActionNodes == {GrammarMoveRecord(lineMove), GrammarMoveRecord(lineToryo), EmptyMoveRecord}

TimeNodes(d) ==
    IF d = "V2_2"
    THEN {GrammarTimeConsumed(lineT12), GrammarTimeConsumed(lineT0)}
    ELSE {GrammarTimeConsumed(lineT12), GrammarTimeConsumed(lineT15_12),
          GrammarTimeConsumed(lineTOverflow)}

\* a child of move_records that is neither an action nor an elapsed time
OtherNodes == {Leaf("comment", lineCmt)}

NodeSeqs(d) ==
    UNION {[1..n -> ActionNodes \cup TimeNodes(d) \cup OtherNodes] : n \in 0..MaxNodes}

-----------------------------------------------------------------------------
(* The node the dialect grammars (grammar.pest) produce for an attribute line
   "$KEY:value": the key, then the value as a datetime node (date, time), a
   timelimit node (hours, minutes, byoyomi) or opaque text *)

\* the position of the first c in s (1-based), 0 when absent
RECURSIVE IndexOf(_, _, _)
IndexOf(s, c, i) ==
    IF i > Len(s) THEN 0 ELSE IF s[i] = c THEN i ELSE IndexOf(s, c, i + 1)

GrammarDateTime(text) ==
    LET sp == IndexOf(text, " ", 1)
    IN  Node("datetime", text,
             IF sp = 0 THEN <<Leaf("date", text)>>
             ELSE <<Leaf("date", SubSeq(text, 1, sp - 1)),
                    Leaf("time", SubSeq(text, sp + 1, Len(text)))>>)

GrammarTimeLimit(text) ==
    LET colon == IndexOf(text, ":", 1)
        plus == IndexOf(text, "+", 1)
    IN  Node("timelimit", text,
             <<Leaf("timelimit_hours", SubSeq(text, 1, colon - 1)),
               Leaf("timelimit_minutes", SubSeq(text, colon + 1, plus - 1)),
               Leaf("timelimit_byoyomi", SubSeq(text, plus + 1, Len(text)))>>)

GrammarAttrValue(form, text) ==
    Node("attr_value", text,
         CASE form = "datetime" -> <<GrammarDateTime(text)>>
           [] form = "timelimit" -> <<GrammarTimeLimit(text)>>
           [] OTHER -> <<Leaf("attr_text", text)>>)

GrammarGameAttr(in) ==
    Node("game_attr", <<"$">> \o in.key \o <<":">> \o in.text,
         <<Leaf("attr_key", in.key), GrammarAttrValue(in.form, in.text)>>)

-----------------------------------------------------------------------------
(* Inputs of the attribute handler *)

keyNote == <<"N", "O", "T", "E">>

AttrKeys == {keyEvent, keySite, keyOpening, keyStartTime, keyEndTime, keyTimeLimit, keyNote}

textTest == <<"T", "e", "s", "t">>
textDateTime == <<"2", "0", "2", "4", "/", "0", "1", "/", "1", "5", " ", "1", "0", ":", "3", "0", ":", "0", "0">>
textDate == <<"2", "0", "2", "4", "/", "0", "2", "/", "2", "9">>
textNoSuchDay == <<"2", "0", "2", "3", "/", "0", "2", "/", "2", "9">>
textNoSuchHour == <<"2", "0", "2", "4", "/", "0", "1", "/", "1", "5", " ", "2", "5", ":", "0", "0", ":", "0", "0">>
textLimit25 == <<"0", "0", ":", "2", "5", "+", "6", "0">>
textLimit90 == <<"0", "1", ":", "3", "0", "+", "0", "0">>
textLimitTooLong == <<"9", "9", "9", "9", "9", "9", "9", "9", "9", "9", "9", "9", "9", "9", "9", "9", "9", "9", "9", "9", ":", "0", "0", "+", "1", "0">>
\* 5124095576030432 hours fit u64, but not as seconds
textLimitOverflow ==
    <<"5", "1", "2", "4", "0", "9", "5", "5", "7", "6", "0", "3", "0", "4", "3", "2",
      ":", "0", "0", "+", "1", "0">>

DateTimeTexts == {textDateTime, textDate, textNoSuchDay, textNoSuchHour}
TimeLimitTexts == {textLimit25, textLimit90, textLimitTooLong, textLimitOverflow}

\* a value with the shape of a date-time or of a time limit arrives as the
\* structured node or as opaque text; any other value as opaque text
AttrInputs ==
    {[key |-> k, form |-> f, text |-> t] :
        k \in AttrKeys, f \in {"datetime", "text"}, t \in DateTimeTexts}
    \cup {[key |-> k, form |-> f, text |-> t] :
            k \in AttrKeys, f \in {"timelimit", "text"}, t \in TimeLimitTexts}
    \cup {[key |-> k, form |-> "text", text |-> textTest] : k \in AttrKeys}

-----------------------------------------------------------------------------
(* The tree the dialect grammars (grammar.pest) produce for a whole text,
   after the wire format: "N+name" / "N-name", "PI" with handicap pieces,
   "P1".."P9" grid rows of 3-character cells, "P+" / "P-" placement lines,
   the side to move, the move section and a trailing event line *)

\* the text cut into pieces of n characters
RECURSIVE Chunks(_, _)
Chunks(s, n) ==
    IF Len(s) < n THEN <<>>
    ELSE <<SubSeq(s, 1, n)>> \o Chunks(SubSeq(s, n + 1, Len(s)), n)

GrammarPlayer(line) ==
    Node(IF line[2] = "+" THEN "black_player" ELSE "white_player", line,
         <<Leaf("player_name", SubSeq(line, 3, Len(line)))>>)

GrammarSquarePiece(rule, text) ==
    Node(rule, text,
         <<Leaf("square", SubSeq(text, 1, 2)), Leaf("piece_type", SubSeq(text, 3, 4))>>)

GrammarHandicap(line) ==
    LET ps == Chunks(SubSeq(line, 3, Len(line)), 4)
    IN  Node("handicap", line,
             [k \in 1..Len(ps) |-> GrammarSquarePiece("handicap_piece", ps[k])])

GrammarGridCell(text) ==
    Node("grid_cell", text,
         IF text = <<" ", "*", " ">>
         THEN <<Leaf("grid_empty", text)>>
         ELSE <<Node("grid_piece", text,
                     <<Leaf("color", SubSeq(text, 1, 1)),
                       Leaf("piece_type", SubSeq(text, 2, 3))>>)>>)

GrammarGridRow(rules, line) ==
    LET cs == Chunks(SubSeq(line, 3, Len(line)), 3)
    IN  Node(rules[Unwrap(to_digit(line[2]))], line,
             [k \in 1..Len(cs) |-> GrammarGridCell(cs[k])])

GrammarPlacement(line) ==
    LET ps == Chunks(SubSeq(line, 3, Len(line)), 4)
    IN  Node("piece_placement", line,
             <<Leaf("color", SubSeq(line, 2, 2))>>
                \o [k \in 1..Len(ps) |-> GrammarSquarePiece("placement_piece", ps[k])])

IsHandicapLine(line) == line[2] = "I"
IsGridLine(line) == IsSome(to_digit(line[2]))
IsPlacementLine(line) == line[2] \in {"+", "-"}

\* which grid grammar matches: 9 rows of 9 cells, 5 rows of 5, 5 rows of 3
GrammarGrid(rows) ==
    LET width == (Len(rows[1]) - 2) \div 3
        kind == IF Len(rows) = 9 THEN "grid"
                ELSE IF width = 5 THEN "minishogi_grid" ELSE "wildcat_grid"
        rules == IF kind = "grid" THEN GridRowRules
                 ELSE IF kind = "minishogi_grid" THEN MiniRowRules ELSE WildcatRowRules
    IN  Node(kind, <<>>, [k \in 1..Len(rows) |-> GrammarGridRow(rules, rows[k])])

\* the position node: the handicap or the one grid that matched, then the
\* placement lines
GrammarPosition(plines) ==
    LET hs == SelectSeq(plines, IsHandicapLine)
        gs == SelectSeq(plines, IsGridLine)
        ps == SelectSeq(plines, IsPlacementLine)
    IN  Node("position", <<>>,
             (IF hs # <<>> THEN <<GrammarHandicap(hs[1])>> ELSE <<>>)
             \o (IF gs # <<>> THEN <<GrammarGrid(gs)>> ELSE <<>>)
             \o (IF ps # <<>>
                 THEN <<Node("piece_placement_lines", <<>>,
                             [k \in 1..Len(ps) |-> GrammarPlacement(ps[k])])>>
                 ELSE <<>>))

GrammarSideToMove(line) == Node("side_to_move", line, <<Leaf("color", line)>>)

IsTimeLine(line) == Head(line) = "T"
IsEventLine(line) == Head(line) = "%"

GrammarMoveLine(line) ==
    IF IsTimeLine(line) THEN GrammarTimeConsumed(line) ELSE GrammarMoveRecord(line)

\* the move section.  With a terminator after the last line every line is a
\* child of move_records.  A last action line without terminator is the
\* final_move node (shape "final_move"), or else still a child of
\* move_records (shape "in_records").
GrammarMoveSection(mlines, term, shape) ==
    LET split == ~term /\ shape = "final_move" /\ mlines # <<>>
        body == IF split THEN SubSeq(mlines, 1, Len(mlines) - 1) ELSE mlines
    IN  (IF body # <<>>
         THEN <<Node("move_records", <<>>, [k \in 1..Len(body) |-> GrammarMoveLine(body[k])])>>
         ELSE <<>>)
        \o (IF split
            THEN <<Node("final_move", mlines[Len(mlines)],
                        GrammarMoveRecord(mlines[Len(mlines)]).inner)>>
            ELSE <<>>)

\* the root node game_record of the text src
GrammarGameRecord(version, src) ==
    Node("game_record", <<>>,
         <<Leaf("version", version)>>
         \o [k \in 1..Len(src.header) |-> GrammarPlayer(src.header[k])]
         \o [k \in 1..Len(src.attrs) |-> GrammarGameAttr(src.attrs[k])]
         \o <<GrammarPosition(src.position)>>
         \o <<GrammarSideToMove(src.side)>>
         \o GrammarMoveSection(src.mlines, src.term, src.shape)
         \o <<Leaf("EOI", <<>>)>>)

-----------------------------------------------------------------------------
(* Inputs of the transformers *)

MaxMoveLines == 3

lineBlackName == <<"N", "+", "N", "A", "K", "A", "H", "A", "R", "A">>
lineWhiteName == <<"N", "-", "Y", "O", "N", "E", "N", "A", "G", "A">>

Headers == {<<>>, <<lineBlackName, lineWhiteName>>}

posPI == << <<"P", "I">> >>
posHandicap == << <<"P", "I", "8", "2", "H", "I", "2", "2", "K", "A">> >>
posGrid ==
    << <<"P", "1", "-", "K", "Y", "-", "K", "E", "-", "G", "I", "-", "K", "I", "-", "O", "U", "-", "K", "I", "-", "G", "I", "-", "K", "E", "-", "K", "Y">>,
       <<"P", "2", " ", "*", " ", "-", "H", "I", " ", "*", " ", " ", "*", " ", " ", "*", " ", " ", "*", " ", " ", "*", " ", "-", "K", "A", " ", "*", " ">>,
       <<"P", "3", "-", "F", "U", "-", "F", "U", "-", "F", "U", "-", "F", "U", "-", "F", "U", "-", "F", "U", "-", "F", "U", "-", "F", "U", "-", "F", "U">>,
       <<"P", "4", " ", "*", " ", " ", "*", " ", " ", "*", " ", " ", "*", " ", " ", "*", " ", " ", "*", " ", " ", "*", " ", " ", "*", " ", " ", "*", " ">>,
       <<"P", "5", " ", "*", " ", " ", "*", " ", " ", "*", " ", " ", "*", " ", " ", "*", " ", " ", "*", " ", " ", "*", " ", " ", "*", " ", " ", "*", " ">>,
       <<"P", "6", " ", "*", " ", " ", "*", " ", " ", "*", " ", " ", "*", " ", " ", "*", " ", " ", "*", " ", " ", "*", " ", " ", "*", " ", " ", "*", " ">>,
       <<"P", "7", "+", "F", "U", "+", "F", "U", "+", "F", "U", "+", "F", "U", "+", "F", "U", "+", "F", "U", "+", "F", "U", "+", "F", "U", "+", "F", "U">>,
       <<"P", "8", " ", "*", " ", "+", "K", "A", " ", "*", " ", " ", "*", " ", " ", "*", " ", " ", "*", " ", " ", "*", " ", "+", "H", "I", " ", "*", " ">>,
       <<"P", "9", "+", "K", "Y", "+", "K", "E", "+", "G", "I", "+", "K", "I", "+", "O", "U", "+", "K", "I", "+", "G", "I", "+", "K", "E", "+", "K", "Y">> >>
posMinishogi ==
    << <<"P", "1", "-", "H", "I", "-", "K", "A", "-", "G", "I", "-", "K", "I", "-", "O", "U">>,
       <<"P", "2", " ", "*", " ", " ", "*", " ", " ", "*", " ", " ", "*", " ", "-", "F", "U">>,
       <<"P", "3", " ", "*", " ", " ", "*", " ", " ", "*", " ", " ", "*", " ", " ", "*", " ">>,
       <<"P", "4", "+", "F", "U", " ", "*", " ", " ", "*", " ", " ", "*", " ", " ", "*", " ">>,
       <<"P", "5", "+", "O", "U", "+", "K", "I", "+", "G", "I", "+", "K", "A", "+", "H", "I">> >>
posWildcat ==
    << <<"P", "1", "-", "K", "A", "-", "O", "U", "-", "H", "I">>,
       <<"P", "2", "-", "F", "U", " ", "*", " ", "-", "F", "U">>,
       <<"P", "3", " ", "*", " ", " ", "*", " ", " ", "*", " ">>,
       <<"P", "4", "+", "F", "U", " ", "*", " ", "+", "F", "U">>,
       <<"P", "5", "+", "H", "I", "+", "O", "U", "+", "K", "A">> >>
posPlacements ==
    << <<"P", "-", "5", "1", "O", "U", "1", "1", "H", "I">>,
       <<"P", "+", "5", "5", "H", "I", "1", "5", "O", "U", "5", "4", "F", "U">> >>

\* the starting positions a text of dialect d can hold
PositionTexts(d) ==
    {posPI, posHandicap, posGrid, posPlacements, posPI \o posPlacements,
     posGrid \o posPlacements}
    \cup (IF d = "V2_2" THEN {posMinishogi, posWildcat} ELSE {})

line7776 == <<"+", "7", "7", "7", "6", "F", "U">>
lineTsumi == EventToken(<<>>, kwTsumi)

lineMaxMoves == EventToken(<<>>, kwMaxMoves)

\* the move-section lines of the texts: a move, two events and an elapsed
\* time everywhere; with the position PI also a second move, the
\* move-count-limit event and, under V3.0, an elapsed time that overflows
PlainMoveLines == {line7776, lineTsumi, lineToryo, lineT12}

MoveLines(d) ==
    PlainMoveLines \cup {lineMove, lineMaxMoves}
    \cup (IF d = "V3" THEN {lineTOverflow} ELSE {})

attrEventTest == [key |-> keyEvent, form |-> "text", text |-> textTest]
attrLimitOverflow == [key |-> keyTimeLimit, form |-> "timelimit", text |-> textLimitOverflow]

\* the attribute lines of a text
AttrLines == {<<>>, <<attrEventTest>>, <<attrLimitOverflow>>}

\* six attribute lines that set every attribute field, and then one more
\* attribute line of any key and value
textSite == <<"T", "o", "k", "y", "o">>
textOpening == <<"Y", "A", "G", "U", "R", "A">>

attrsFilled ==
    << attrEventTest,
       [key |-> keySite, form |-> "text", text |-> textSite],
       [key |-> keyOpening, form |-> "text", text |-> textOpening],
       [key |-> keyStartTime, form |-> "datetime", text |-> textDateTime],
       [key |-> keyEndTime, form |-> "datetime", text |-> textDate],
       [key |-> keyTimeLimit, form |-> "timelimit", text |-> textLimit90] >>

AttrLinesFilled == {Append(attrsFilled, in) : in \in AttrInputs}

\* action lines, each optionally followed by one elapsed-time line; an event
\* ends the game, so only its elapsed-time line can follow it
WellFormedMoveLines(ls) ==
    \A k \in 1..Len(ls) :
        /\ IsTimeLine(ls[k]) => (k > 1 /\ ~IsTimeLine(ls[k - 1]))
        /\ IsEventLine(ls[k]) => (k = Len(ls) \/ (k + 1 = Len(ls) /\ IsTimeLine(ls[k + 1])))

MoveLineSeqs(lines) ==
    {ls \in UNION {[1..n -> lines] : n \in 0..MaxMoveLines} : WellFormedMoveLines(ls)}

\* the last line has a terminator, or it is an action line without one
Sources(d) ==
    {[header |-> h, attrs |-> <<>>, position |-> p, side |-> sd, mlines |-> ls,
      term |-> t, shape |-> sh] :
        h \in Headers, p \in PositionTexts(d), sd \in {<<"+">>, <<"-">>},
        ls \in MoveLineSeqs(PlainMoveLines), t \in BOOLEAN,
        sh \in {"final_move", "in_records"}}
    \cup
    {[header |-> h, attrs |-> at, position |-> posPI, side |-> <<"+">>, mlines |-> ls,
      term |-> t, shape |-> sh] :
        h \in Headers, at \in AttrLines, ls \in MoveLineSeqs(MoveLines(d)), t \in BOOLEAN,
        sh \in {"final_move", "in_records"}}
    \cup
    {[header |-> <<lineBlackName, lineWhiteName>>, attrs |-> at, position |-> posHandicap,
      side |-> <<"-">>, mlines |-> <<line7776>>, term |-> TRUE, shape |-> "in_records"] :
        at \in AttrLinesFilled}

ValidSource(src) ==
    /\ src.term => src.shape = "in_records"
    /\ ~src.term => (src.mlines # <<>> /\ ~IsTimeLine(src.mlines[Len(src.mlines)]))

VersionToken(d) == IF d = "V2_2" THEN tokV2_2 ELSE tokV3_0

-----------------------------------------------------------------------------
(* Facade: src/src/parser/csa/mod.rs (parse), src/src/parser/mod.rs
   (parse_csa), and the dialect parsers v2_2::parse, v3::parse they call *)

NoVersionMsg == "No version found or unsupported version"
GrammarMsg == "grammar diagnostic"

\* a free-text time limit: V2.2 stores it, V3.0 leaves the field absent
attrLimitText == [key |-> keyTimeLimit, form |-> "text", text |-> textLimit25]

\* whole game records given to the facade, with the position PI and black
\* to move: without header and every line terminated, among them a time
\* limit and, under V3.0, an elapsed time whose arithmetic overflows; and
\* with both players and a last move without terminator
FacadeSources(d) ==
    {[header |-> <<>>, attrs |-> at, position |-> posPI, side |-> <<"+">>,
      mlines |-> ls, term |-> TRUE, shape |-> "in_records"] :
        at \in {<<>>, <<attrLimitText>>, <<attrLimitOverflow>>},
        ls \in {<<>>, <<lineMove, lineT12>>}
               \cup (IF d = "V3" THEN {<<lineMove, lineTOverflow>>} ELSE {})}
    \cup
    {[header |-> <<lineBlackName, lineWhiteName>>, attrs |-> <<>>, position |-> posPI,
      side |-> <<"+">>, mlines |-> <<lineMove>>, term |-> FALSE, shape |-> sh] :
        sh \in {"final_move", "in_records"}}

\* the lines of the text of a source: version, players, attributes,
\* position, side to move, moves
SourceLines(version, src) ==
    <<version>>
    \o src.header
    \o [k \in 1..Len(src.attrs) |-> GrammarGameAttr(src.attrs[k]).text]
    \o src.position
    \o <<src.side>>
    \o src.mlines

SourceText(version, src) == Join(SourceLines(version, src), src.term)

\* the record texts of each dialect with their sources
FacadeTable ==
    UNION {{[dialect |-> d, text |-> SourceText(VersionToken(d), src), src |-> src] :
               src \in FacadeSources(d)} : d \in {"V2_2", "V3"}}

\* the shortest record: version, PI, side to move
bareSource ==
    [header |-> <<>>, attrs |-> <<>>, position |-> posPI, side |-> <<"+">>,
     mlines |-> <<>>, term |-> TRUE, shape |-> "in_records"]

\* the record texts, and the shortest record in the two older dialects
FacadeTexts ==
    {e.text : e \in FacadeTable}
    \cup {SourceText(tok, bareSource) : tok \in {tokV2, tokV2_1}}

InputTexts == LineInputTexts \cup FacadeTexts

\* CsaParser::parse(Rule::game_record, input) of dialect v: None for a
\* rejection with a diagnostic, Some(src) for the tree
\* GrammarGameRecord(VersionToken(v), src).  A record text gives the tree of
\* its source.  What the grammar does with any other text is not known
\* here: a rejection and an acceptance (with the tree of the shortest
\* record) are both taken.
GrammarParse(v, text) ==
    LET known == {e \in FacadeTable : e.dialect = v /\ e.text = text}
    IN  IF known # {}
        THEN {Some(e.src) : e \in known}
        ELSE {None, Some(bareSource)}

\* v2_2::parse(input) / v3::parse(input): the grammar's diagnostic as the
\* error, or Ok(record) after the walk over the children of game_record
\* (u64 arithmetic wrapping around)
DialectParse(v, text) ==
    {IF g = None
     THEN Err("dialect::ParseError", GrammarMsg)
     ELSE Ok(transform(v, GrammarGameRecord(VersionToken(v), Unwrap(g)))) :
        g \in GrammarParse(v, text)}

\* v2_2::parse(input) / v3::parse(input) reaches u64 arithmetic that
\* overflows: a build that checks arithmetic panics inside the walk
DialectParseOverflows(v, text) ==
    \E g \in GrammarParse(v, text) :
        /\ g # None
        /\ LET inner == GrammarGameRecord(VersionToken(v), Unwrap(g)).inner
           IN  \E k \in 1..Len(inner) :
                  \/ /\ inner[k].rule = "game_attr"
                     /\ parse_game_attr_overflows(v, inner[k])
                  \/ /\ inner[k].rule = "move_records"
                     /\ parse_move_records_overflows(v, inner[k])

\* the record of the shortest text
bareRecord == transform("V2_2", GrammarGameRecord(tokV2_2, bareSource))

\* v2::parse(input) / v2_1::parse(input): a diagnostic or a record, here the
\* record of the shortest text
LegacyParse(v, text) ==
    {Err("dialect::ParseError", GrammarMsg), Ok(bareRecord)}

\* a variant that states a message of its own
map_errMutOwnMessage(r, kind) == IF IsErr(r) THEN Err(kind, "parse error") ELSE r

\* .map_err(|e| ParseError(e.0)): the message is carried over, the type changes
map_err(r, kind) == IF IsErr(r) THEN Err(kind, r[3]) ELSE r

\* match version: the parser each arm calls and the results it can return
MatchVersion(version, text) ==
    CASE version = "V2" -> LegacyParse("V2", text)
      [] version = "V2_1" -> LegacyParse("V2_1", text)
      [] version = "V2_2" -> DialectParse("V2_2", text)
      [] version = "V3" -> DialectParse("V3", text)

\* a variant that falls back to the V2.2 parser when no version is found
parseMutFallback(text) ==
    LET version == detect_version(text)
    IN  IF version = None
        THEN {[ran |-> {"V2_2"}, result |-> map_err(r, "csa::ParseError")] :
                 r \in DialectParse("V2_2", text)}
        ELSE {[ran |-> {Unwrap(version)}, result |-> map_err(r, "csa::ParseError")] :
                 r \in MatchVersion(Unwrap(version), text)}

\* csa::parse: the dialect parsers it runs and the results it can return
parse(text) ==
    LET version == detect_version(text)
    IN  IF version = None
        THEN {[ran |-> {}, result |-> Err("csa::ParseError", NoVersionMsg)]}
        ELSE {[ran |-> {Unwrap(version)}, result |-> map_err(r, "csa::ParseError")] :
                 r \in MatchVersion(Unwrap(version), text)}

\* csa::parse panics: the arm of the detected dialect calls a parser whose
\* arithmetic overflows
parse_overflows(text) ==
    LET version == detect_version(text)
    IN  /\ version \in {Some("V2_2"), Some("V3")}
        /\ DialectParseOverflows(Unwrap(version), text)

\* parse_csa: csa::parse with the error re-wrapped as CsaError::ParseError
parse_csa(text) ==
    {[ran |-> p.ran, result |-> map_err(p.result, "CsaError::ParseError")] :
        p \in parse(text)}


-----------------------------------------------------------------------------
(* Inputs of the converters *)

secs15 == <<"1", "5">>
secs007 == <<"0", "0", "7">>
\* the most seconds whose milliseconds fit u64, and one more
secsLargest == <<"1", "8", "4", "4", "6", "7", "4", "4", "0", "7", "3", "7", "0", "9", "5", "5", "1">>
secsOverflow == <<"1", "8", "4", "4", "6", "7", "4", "4", "0", "7", "3", "7", "0", "9", "5", "5", "2">>

SecondsTexts == {<<"0">>, secs15, secs007, secsLargest, secsOverflow}

\* the fractional suffixes of the V3.0 grammar: 1 to 3 digits
FractionTexts == UNION {[1..n -> {"0", "1", "2", "3"}] : n \in 1..3}

\* "T" seconds, and under V3.0 also "T" seconds "." fraction
TimeTokens(d) ==
    {<<"T">> \o sec : sec \in SecondsTexts}
    \cup (IF d = "V3"
          THEN {<<"T">> \o sec \o <<".">> \o frac :
                   sec \in SecondsTexts, frac \in FractionTexts}
          ELSE {})

\* move lines: colour, origin square, destination square, piece code; the
\* origin "00" writes a drop
SquareTexts == {<<"0", "0">>, <<"2", "7">>, <<"5", "3">>, <<"9", "9">>, <<"1", "1">>}
PieceTexts == {<<"F", "U">>, <<"K", "A">>, <<"R", "Y">>}

NormalMoveLines ==
    {c \o from \o to \o piece :
        c \in {<<"+">>, <<"-">>}, from \in SquareTexts, to \in SquareTexts, piece \in PieceTexts}

\* player lines: "N+" or "N-" and the name token, the rest of the line
nameNakahara == <<"N", "A", "K", "A", "H", "A", "R", "A">>
nameTwoWords == <<"A", " ", "B">>
NameTokens ==
    {<<>>, nameNakahara, nameTwoWords, <<" ">> \o nameNakahara, nameNakahara \o <<" ">>,
     <<" ">> \o nameTwoWords \o <<" ", " ">>, <<" ">>}

PlayerLines == {<<"N", c>> \o name : c \in {"+", "-"}, name \in NameTokens}

\* grid rows: "P", the row digit and n cells of three characters, the k-th
\* cell of row r being CellCycle[(k + r) % 5 + 1]
CellCycle ==
    << <<"+", "F", "U">>, <<" ", "*", " ">>, <<"-", "K", "A">>, <<"+", "O", "U">>,
       <<"-", "H", "I">> >>

DigitChars == <<"1", "2", "3", "4", "5", "6", "7", "8", "9">>

RECURSIVE CellRun(_, _, _)
CellRun(r, k, n) ==
    IF k > n THEN <<>> ELSE CellCycle[((k + r) % 5) + 1] \o CellRun(r, k + 1, n)

RowLine(r, n) == <<"P", DigitChars[r]>> \o CellRun(r, 1, n)

GridKinds == {"grid", "minishogi_grid", "wildcat_grid"}

GridRules(kind) ==
    CASE kind = "grid" -> GridRowRules
      [] kind = "minishogi_grid" -> MiniRowRules
      [] kind = "wildcat_grid" -> WildcatRowRules

GridWidth(kind) ==
    CASE kind = "grid" -> 9
      [] kind = "minishogi_grid" -> 5
      [] kind = "wildcat_grid" -> 3

GridHeight(kind) == Len(GridRules(kind))

\* how many cells a row line writes: none, one, short of the width, the
\* width, and more than the width
CellCounts(kind) ==
    {0, 1, GridWidth(kind) - 1, GridWidth(kind), GridWidth(kind) + 1, GridWidth(kind) + 2}

GridNode(kind, rows) ==
    Node(kind, <<>>, [k \in 1..Len(rows) |-> GrammarGridRow(GridRules(kind), rows[k])])

\* grid nodes: the full boards, one row line, and two row lines in row order
GridInputs(kind) ==
    {GridNode(kind, <<RowLine(r, n)>>) : r \in 1..GridHeight(kind), n \in CellCounts(kind)}
    \cup {GridNode(kind, <<RowLine(r[1], n1), RowLine(r[2], n2)>>) :
             r \in {q \in (1..GridHeight(kind)) \X (1..GridHeight(kind)) : q[1] < q[2]},
             n1 \in CellCounts(kind), n2 \in CellCounts(kind)}
    \cup {GridNode(kind, CASE kind = "grid" -> posGrid
                           [] kind = "minishogi_grid" -> posMinishogi
                           [] kind = "wildcat_grid" -> posWildcat)}

\* placement lines: "P", the colour sign and up to MaxPairs pairs of a
\* square and a piece code
MaxPairs == 2
MaxPlacementLines == 2

PairTexts == {<<"5", "1", "O", "U">>, <<"1", "5", "H", "I">>}

RECURSIVE Flatten(_)
Flatten(ss) == IF ss = <<>> THEN <<>> ELSE Head(ss) \o Flatten(Tail(ss))

PlacementLines ==
    {<<"P", sign>> \o Flatten(ps) :
        sign \in {"+", "-"}, ps \in UNION {[1..n -> PairTexts] : n \in 0..MaxPairs}}

PlacementsNode(lines) ==
    Node("piece_placement_lines", <<>>, [k \in 1..Len(lines) |-> GrammarPlacement(lines[k])])

PlacementInputs ==
    {PlacementsNode(ls) : ls \in UNION {[1..n -> PlacementLines] : n \in 1..MaxPlacementLines}}

\* time-limit values "HH:MM+SS": small figures, the largest hours and
\* minutes whose seconds fit u64, one more, u64::MAX, and a figure too long
\* for u64
hoursLargest == <<"5", "1", "2", "4", "0", "9", "5", "5", "7", "6", "0", "3", "0", "4", "3", "1">>
hoursOverflow == <<"5", "1", "2", "4", "0", "9", "5", "5", "7", "6", "0", "3", "0", "4", "3", "2">>
minutesLargest ==
    <<"3", "0", "7", "4", "4", "5", "7", "3", "4", "5", "6", "1", "8", "2", "5", "8", "6", "0">>
minutesOverflow ==
    <<"3", "0", "7", "4", "4", "5", "7", "3", "4", "5", "6", "1", "8", "2", "5", "8", "6", "1">>
figureU64Max ==
    <<"1", "8", "4", "4", "6", "7", "4", "4", "0", "7", "3", "7", "0", "9", "5", "5", "1", "6", "1",
      "5">>
figureTooLong ==
    <<"9", "9", "9", "9", "9", "9", "9", "9", "9", "9", "9", "9", "9", "9", "9", "9", "9", "9", "9",
      "9">>

HoursTexts == {<<"0", "0">>, <<"1">>, hoursLargest, hoursOverflow, figureU64Max, figureTooLong}
MinutesTexts == {<<"0", "0">>, <<"2", "5">>, <<"9", "0">>, minutesLargest, minutesOverflow}
ByoyomiTexts == {<<"0", "0">>, <<"1", "0">>, <<"6", "0">>, figureU64Max}

LimitTexts ==
    {h \o <<":">> \o m \o <<"+">> \o b :
        h \in HoursTexts, m \in MinutesTexts, b \in ByoyomiTexts}

\* date-time values: a date token and, after a space, an optional
\* time-of-day token
dateJan15 == <<"2", "0", "2", "4", "/", "0", "1", "/", "1", "5">>
dateLeapDay == <<"2", "0", "2", "4", "/", "0", "2", "/", "2", "9">>
dateNoSuchDay == <<"2", "0", "2", "3", "/", "0", "2", "/", "2", "9">>
dateNoSuchMonth == <<"2", "0", "2", "4", "/", "1", "3", "/", "0", "1">>
dateTwoFields == <<"2", "0", "2", "4", "/", "0", "1">>

DateTokens == {dateJan15, dateLeapDay, dateNoSuchDay, dateNoSuchMonth, dateTwoFields}

clock103000 == <<"1", "0", ":", "3", "0", ":", "0", "0">>
clock235959 == <<"2", "3", ":", "5", "9", ":", "5", "9">>
clockHour25 == <<"2", "5", ":", "0", "0", ":", "0", "0">>
clockMinute60 == <<"1", "0", ":", "6", "0", ":", "0", "0">>
clockSecond61 == <<"1", "0", ":", "3", "0", ":", "6", "1">>
clockHour256 == <<"2", "5", "6", ":", "0", "0", ":", "0", "0">>
clockNotANumber == <<"1", "x", ":", "3", "0", ":", "0", "0">>
clockTwoFields == <<"1", "0", ":", "3", "0">>
clockFourFields == <<"1", "0", ":", "3", "0", ":", "0", "0", ":", "0", "0">>

ClockTokens ==
    {clock103000, clock235959, clockHour25, clockMinute60, clockSecond61, clockHour256,
     clockNotANumber, clockTwoFields, clockFourFields}

DateTimeValues == DateTokens \cup {d \o <<" ">> \o c : d \in DateTokens, c \in ClockTokens}

\* the grid of each converter; V3.0 has the 9x9 board only
GridKindOf(fn) ==
    CASE fn = "parse_grid" -> "grid"
      [] fn = "parse_minishogi_grid" -> "minishogi_grid"
      [] fn = "parse_wildcat_grid" -> "wildcat_grid"

GridConverters(d) ==
    IF d = "V2_2" THEN {"parse_grid", "parse_minishogi_grid", "parse_wildcat_grid"}
    ELSE {"parse_grid"}

ConvertInputs(fn, d) ==
    CASE fn = "parse_time_consumed" -> {GrammarTimeConsumed(t) : t \in TimeTokens(d)}
      [] fn = "parse_normal_move" -> {GrammarNormalMove(l) : l \in NormalMoveLines}
      [] fn = "parse_player_name" -> {GrammarPlayer(l) : l \in PlayerLines}
      [] fn \in GridConverters(d) -> GridInputs(GridKindOf(fn))
      [] fn = "parse_piece_placements" -> PlacementInputs
      [] fn = "parse_timelimit" -> {GrammarTimeLimit(t) : t \in LimitTexts}
      [] fn = "parse_datetime" -> {GrammarDateTime(t) : t \in DateTimeValues}
      [] fn = "try_parse_timelimit_str" /\ d = "V2_2" -> LimitTexts
      [] OTHER -> {}

Converters ==
    {"parse_time_consumed", "parse_normal_move", "parse_player_name",
     "parse_grid", "parse_minishogi_grid", "parse_wildcat_grid",
     "parse_piece_placements", "parse_timelimit", "try_parse_timelimit_str",
     "parse_datetime"}

-----------------------------------------------------------------------------
(* The state machines.  Each specification runs one component; the variables
   of the other components rest at their idle values. *)

DetectIdle ==
    /\ input = <<>>
    /\ dpc = "idle"
    /\ detected = None
    /\ ran = {}
    /\ outcome = <<>>

ClassifyIdle ==
    /\ cdialect = "V2_2"
    /\ ctoken = <<>>
    /\ cresult = <<>>
    /\ cpc = "idle"

AssemblerIdle ==
    /\ mdialect = "V2_2"
    /\ mnodes = <<>>
    /\ mi = 0
    /\ moves = <<>>
    /\ pending = None
    /\ mpc = "idle"

TransformIdle ==
    /\ pdialect = "V2_2"
    /\ psrc = <<>>
    /\ pidx = 0
    /\ record = GameRecordDefault
    /\ ppc = "idle"

AttrIdle ==
    /\ adialect = "V2_2"
    /\ ainput = <<>>
    /\ arecord = GameRecordDefault
    /\ apc = "idle"

ConvertIdle ==
    /\ vfn = "none"
    /\ vdialect = "V2_2"
    /\ vnode = <<>>
    /\ vresult = <<>>
    /\ vpc = "idle"

(* The detector and facade: one call on one input *)

DetectInit ==
    /\ input \in InputTexts
    /\ dpc = "input"
    /\ detected = None
    /\ ran = {}
    /\ outcome = <<>>
    /\ ClassifyIdle
    /\ AssemblerIdle
    /\ TransformIdle
    /\ AttrIdle
    /\ ConvertIdle

\* a direct call of detect_version
CallDetectVersion ==
    /\ dpc = "input"
    /\ detected' = detect_version(input)
    /\ dpc' = "detected"
    /\ UNCHANGED <<input, ran, outcome>>
    /\ UNCHANGED <<classifyVars, assemblerVars, transformVars, attrVars, convertVars>>

\* the error types of the entry points: csa::parse returns ParseError,
\* parse_csa re-wraps it as CsaError::ParseError
FacadeResult(entry, r) ==
    IF entry = "parse"
    THEN map_err(r, "csa::ParseError")
    ELSE map_err(map_err(r, "csa::ParseError"), "CsaError::ParseError")

\* a call of csa::parse up to the walk of the dialect parser: the no-version
\* error; or the arm of the detected dialect, where v2::parse and
\* v2_1::parse return at once and v2_2::parse and v3::parse return the
\* grammar's diagnostic or start the walk over the tree
CallParse ==
    /\ dpc = "input"
    /\ detected' = detect_version(input)
    /\ \/ /\ detect_version(input) = None
          /\ ran' = {}
          /\ outcome' = FacadeResult("parse", Err("csa::ParseError", NoVersionMsg))
          /\ dpc' = "parsed"
          /\ UNCHANGED transformVars
       \/ /\ detect_version(input) \in {Some("V2"), Some("V2_1")}
          /\ ran' = {Unwrap(detect_version(input))}
          /\ \E r \in LegacyParse(Unwrap(detect_version(input)), input) :
                outcome' = FacadeResult("parse", r)
          /\ dpc' = "parsed"
          /\ UNCHANGED transformVars
       \/ /\ detect_version(input) \in {Some("V2_2"), Some("V3")}
          /\ ran' = {Unwrap(detect_version(input))}
          /\ \E g \in GrammarParse(Unwrap(detect_version(input)), input) :
                \/ /\ g = None
                   /\ outcome' = FacadeResult("parse", Err("dialect::ParseError", GrammarMsg))
                   /\ dpc' = "parsed"
                   /\ UNCHANGED transformVars
                \/ /\ g # None
                   /\ pdialect' = Unwrap(detect_version(input))
                   /\ psrc' = Unwrap(g)
                   /\ pidx' = 0
                   /\ record' = GameRecordDefault
                   /\ ppc' = "walk"
                   /\ dpc' = "in_parse"
                   /\ UNCHANGED outcome
    /\ UNCHANGED input
    /\ UNCHANGED <<classifyVars, assemblerVars, attrVars, convertVars>>

\* a call of parse_csa up to the walk of the dialect parser: the no-version
\* error; or the arm of the detected dialect, where v2::parse and
\* v2_1::parse return at once and v2_2::parse and v3::parse return the
\* grammar's diagnostic or start the walk over the tree
CallParseCsa ==
    /\ dpc = "input"
    /\ detected' = detect_version(input)
    /\ \/ /\ detect_version(input) = None
          /\ ran' = {}
          /\ outcome' = FacadeResult("parse_csa", Err("csa::ParseError", NoVersionMsg))
          /\ dpc' = "parsed"
          /\ UNCHANGED transformVars
       \/ /\ detect_version(input) \in {Some("V2"), Some("V2_1")}
          /\ ran' = {Unwrap(detect_version(input))}
          /\ \E r \in LegacyParse(Unwrap(detect_version(input)), input) :
                outcome' = FacadeResult("parse_csa", r)
          /\ dpc' = "parsed"
          /\ UNCHANGED transformVars
       \/ /\ detect_version(input) \in {Some("V2_2"), Some("V3")}
          /\ ran' = {Unwrap(detect_version(input))}
          /\ \E g \in GrammarParse(Unwrap(detect_version(input)), input) :
                \/ /\ g = None
                   /\ outcome' = FacadeResult("parse_csa", Err("dialect::ParseError", GrammarMsg))
                   /\ dpc' = "parsed"
                   /\ UNCHANGED transformVars
                \/ /\ g # None
                   /\ pdialect' = Unwrap(detect_version(input))
                   /\ psrc' = Unwrap(g)
                   /\ pidx' = 0
                   /\ record' = GameRecordDefault
                   /\ ppc' = "walk"
                   /\ dpc' = "in_parse"
                   /\ UNCHANGED outcome
    /\ UNCHANGED input
    /\ UNCHANGED <<classifyVars, assemblerVars, attrVars, convertVars>>

\* the walk has ended with Ok(record): csa::parse returns it, and parse_csa,
\* when it made the call, passes it on unchanged
ReturnParse ==
    /\ dpc = "in_parse"
    /\ ppc = "done"
    /\ outcome' = Ok(record)
    /\ dpc' = "parsed"
    /\ UNCHANGED <<input, detected, ran>>
    /\ UNCHANGED <<classifyVars, assemblerVars, transformVars, attrVars, convertVars>>

(* The event classifier: one call of a dialect's parse_special_move *)

ClassifyInit ==
    /\ cdialect \in {"V2_2", "V3"}
    /\ ctoken \in EventTokens
    /\ cresult = <<>>
    /\ cpc = "token"
    /\ DetectIdle
    /\ AssemblerIdle
    /\ TransformIdle
    /\ AttrIdle
    /\ ConvertIdle

CallSpecialMoveV22 ==
    /\ cpc = "token"
    /\ cdialect = "V2_2"
    /\ cresult' = v2_2_parse_special_move(ctoken)
    /\ cpc' = "classified"
    /\ UNCHANGED <<cdialect, ctoken>>
    /\ UNCHANGED <<detectVars, assemblerVars, transformVars, attrVars, convertVars>>

CallSpecialMoveV3 ==
    /\ cpc = "token"
    /\ cdialect = "V3"
    /\ cresult' = v3_parse_special_move(ctoken)
    /\ cpc' = "classified"
    /\ UNCHANGED <<cdialect, ctoken>>
    /\ UNCHANGED <<detectVars, assemblerVars, transformVars, attrVars, convertVars>>

ClassifyNext == CallSpecialMoveV22 \/ CallSpecialMoveV3

SpecClassify == ClassifyInit /\ [][ClassifyNext]_vars

(* The move-stream assembler: parse_move_records, one loop iteration a step *)

AssemblerInit ==
    /\ mdialect \in {"V2_2", "V3"}
    /\ mnodes \in NodeSeqs(mdialect)
    /\ mi = 0
    /\ moves = AssemblerStart.moves
    /\ pending = AssemblerStart.pending
    /\ mpc = "loop"
    /\ DetectIdle
    /\ ClassifyIdle
    /\ TransformIdle
    /\ AttrIdle
    /\ ConvertIdle

\* the loop takes a move_record child
HandleMoveRecord ==
    /\ mpc = "loop"
    /\ mi < Len(mnodes)
    /\ mnodes[mi + 1].rule = "move_record"
    /\ LET st == OnMoveRecord(mdialect, [moves |-> moves, pending |-> pending], mnodes[mi + 1])
       IN  /\ moves' = st.moves
           /\ pending' = st.pending
    /\ mi' = mi + 1
    /\ UNCHANGED <<mdialect, mnodes, mpc>>
    /\ UNCHANGED <<detectVars, classifyVars, transformVars, attrVars, convertVars>>

\* the loop takes a time_consumed child whose arithmetic overflows, in a
\* build that checks arithmetic: the panic ends the call
AbortTimeConsumed ==
    /\ mpc = "loop"
    /\ mi < Len(mnodes)
    /\ mnodes[mi + 1].rule = "time_consumed"
    /\ OnTimeConsumedOverflows(mdialect, [moves |-> moves, pending |-> pending], mnodes[mi + 1])
    /\ mpc' = "abort"
    /\ UNCHANGED <<mdialect, mnodes, mi, moves, pending>>
    /\ UNCHANGED <<detectVars, classifyVars, transformVars, attrVars, convertVars>>

\* the loop takes a time_consumed child; an overflow wraps around here (a
\* build that does not check arithmetic)
HandleTimeConsumed ==
    /\ mpc = "loop"
    /\ mi < Len(mnodes)
    /\ mnodes[mi + 1].rule = "time_consumed"
    /\ LET st == OnTimeConsumed(mdialect, [moves |-> moves, pending |-> pending], mnodes[mi + 1])
       IN  /\ moves' = st.moves
           /\ pending' = st.pending
    /\ mi' = mi + 1
    /\ UNCHANGED <<mdialect, mnodes, mpc>>
    /\ UNCHANGED <<detectVars, classifyVars, transformVars, attrVars, convertVars>>

\* _ => {}: the loop takes a child of any other rule and goes on
HandleOther ==
    /\ mpc = "loop"
    /\ mi < Len(mnodes)
    /\ mnodes[mi + 1].rule \notin {"move_record", "time_consumed"}
    /\ mi' = mi + 1
    /\ UNCHANGED <<mdialect, mnodes, mpc, moves, pending>>
    /\ UNCHANGED <<detectVars, classifyVars, transformVars, attrVars, convertVars>>

\* the children are exhausted: the code after the loop, and the return
EndOfNodes ==
    /\ mpc = "loop"
    /\ mi = Len(mnodes)
    /\ LET st == AfterLastNode([moves |-> moves, pending |-> pending])
       IN  /\ moves' = st.moves
           /\ pending' = st.pending
    /\ mpc' = "done"
    /\ UNCHANGED <<mdialect, mnodes, mi>>
    /\ UNCHANGED <<detectVars, classifyVars, transformVars, attrVars, convertVars>>

AssemblerNext ==
    \/ HandleMoveRecord
    \/ HandleTimeConsumed
    \/ AbortTimeConsumed
    \/ HandleOther
    \/ EndOfNodes

SpecAssembler == AssemblerInit /\ [][AssemblerNext]_vars

(* The transformers: v2_2::parse / v3::parse on a text the grammar accepts,
   one child of game_record a step *)

\* the children of the root node of the text being parsed
Tree == GrammarGameRecord(VersionToken(pdialect), psrc).inner

TransformInit ==
    /\ pdialect \in {"V2_2", "V3"}
    /\ psrc \in {src \in Sources(pdialect) : ValidSource(src)}
    /\ pidx = 0
    /\ record = GameRecordDefault
    /\ ppc = "walk"
    /\ DetectIdle
    /\ ClassifyIdle
    /\ AssemblerIdle
    /\ AttrIdle
    /\ ConvertIdle

\* Rule::black_player
WalkBlackPlayer ==
    /\ ppc = "walk"
    /\ pidx < Len(Tree)
    /\ Tree[pidx + 1].rule = "black_player"
    /\ record' = OnBlackPlayer(record, Tree[pidx + 1])
    /\ pidx' = pidx + 1
    /\ UNCHANGED <<pdialect, psrc, ppc>>
    /\ UNCHANGED <<detectVars, classifyVars, assemblerVars, attrVars, convertVars>>

\* Rule::white_player
WalkWhitePlayer ==
    /\ ppc = "walk"
    /\ pidx < Len(Tree)
    /\ Tree[pidx + 1].rule = "white_player"
    /\ record' = OnWhitePlayer(record, Tree[pidx + 1])
    /\ pidx' = pidx + 1
    /\ UNCHANGED <<pdialect, psrc, ppc>>
    /\ UNCHANGED <<detectVars, classifyVars, assemblerVars, attrVars, convertVars>>

\* Rule::game_attr; an overflow of the time-limit sum wraps around here (a
\* build that does not check arithmetic)
WalkGameAttr ==
    /\ ppc = "walk"
    /\ pidx < Len(Tree)
    /\ Tree[pidx + 1].rule = "game_attr"
    /\ record' = OnGameAttr(pdialect, record, Tree[pidx + 1])
    /\ pidx' = pidx + 1
    /\ UNCHANGED <<pdialect, psrc, ppc>>
    /\ UNCHANGED <<detectVars, classifyVars, assemblerVars, attrVars, convertVars>>

\* Rule::game_attr on a time limit whose sum overflows, in a build that
\* checks arithmetic: the panic ends parse
AbortGameAttr ==
    /\ ppc = "walk"
    /\ pidx < Len(Tree)
    /\ Tree[pidx + 1].rule = "game_attr"
    /\ parse_game_attr_overflows(pdialect, Tree[pidx + 1])
    /\ ppc' = "abort"
    /\ UNCHANGED <<pdialect, psrc, pidx, record>>
    /\ UNCHANGED <<detectVars, classifyVars, assemblerVars, attrVars, convertVars>>

\* Rule::position
WalkPosition ==
    /\ ppc = "walk"
    /\ pidx < Len(Tree)
    /\ Tree[pidx + 1].rule = "position"
    /\ record' = OnPosition(pdialect, record, Tree[pidx + 1])
    /\ pidx' = pidx + 1
    /\ UNCHANGED <<pdialect, psrc, ppc>>
    /\ UNCHANGED <<detectVars, classifyVars, assemblerVars, attrVars, convertVars>>

\* Rule::side_to_move
WalkSideToMove ==
    /\ ppc = "walk"
    /\ pidx < Len(Tree)
    /\ Tree[pidx + 1].rule = "side_to_move"
    /\ record' = OnSideToMove(record, Tree[pidx + 1])
    /\ pidx' = pidx + 1
    /\ UNCHANGED <<pdialect, psrc, ppc>>
    /\ UNCHANGED <<detectVars, classifyVars, assemblerVars, attrVars, convertVars>>

\* Rule::move_records with an elapsed time whose milliseconds overflow, in a
\* build that checks arithmetic: the panic ends parse
AbortMoveRecords ==
    /\ ppc = "walk"
    /\ pidx < Len(Tree)
    /\ Tree[pidx + 1].rule = "move_records"
    /\ parse_move_records_overflows(pdialect, Tree[pidx + 1])
    /\ ppc' = "abort"
    /\ UNCHANGED <<pdialect, psrc, pidx, record>>
    /\ UNCHANGED <<detectVars, classifyVars, assemblerVars, attrVars, convertVars>>

\* Rule::move_records; an overflow of an elapsed time wraps around here (a
\* build that does not check arithmetic)
WalkMoveRecords ==
    /\ ppc = "walk"
    /\ pidx < Len(Tree)
    /\ Tree[pidx + 1].rule = "move_records"
    /\ record' = OnMoveRecords(pdialect, record, Tree[pidx + 1])
    /\ pidx' = pidx + 1
    /\ UNCHANGED <<pdialect, psrc, ppc>>
    /\ UNCHANGED <<detectVars, classifyVars, assemblerVars, attrVars, convertVars>>

\* Rule::final_move
WalkFinalMove ==
    /\ ppc = "walk"
    /\ pidx < Len(Tree)
    /\ Tree[pidx + 1].rule = "final_move"
    /\ record' = OnFinalMove(pdialect, record, Tree[pidx + 1])
    /\ pidx' = pidx + 1
    /\ UNCHANGED <<pdialect, psrc, ppc>>
    /\ UNCHANGED <<detectVars, classifyVars, assemblerVars, attrVars, convertVars>>

\* _ => {}: a child whose rule has no arm
WalkOther ==
    /\ ppc = "walk"
    /\ pidx < Len(Tree)
    /\ Tree[pidx + 1].rule \notin WalkedRules
    /\ pidx' = pidx + 1
    /\ UNCHANGED <<pdialect, psrc, ppc, record>>
    /\ UNCHANGED <<detectVars, classifyVars, assemblerVars, attrVars, convertVars>>

\* Ok(record)
WalkReturn ==
    /\ ppc = "walk"
    /\ pidx = Len(Tree)
    /\ ppc' = "done"
    /\ UNCHANGED <<pdialect, psrc, pidx, record>>
    /\ UNCHANGED <<detectVars, classifyVars, assemblerVars, attrVars, convertVars>>

TransformNext ==
    \/ WalkBlackPlayer \/ WalkWhitePlayer \/ WalkGameAttr \/ AbortGameAttr
    \/ WalkPosition \/ WalkSideToMove \/ WalkMoveRecords \/ AbortMoveRecords
    \/ WalkFinalMove \/ WalkOther \/ WalkReturn

SpecTransform == TransformInit /\ [][TransformNext]_vars

\* the detector and facade; the walk of v2_2::parse / v3::parse called by
\* an entry point is the walk of the transformers
DetectNext ==
    \/ CallDetectVersion \/ CallParse \/ CallParseCsa
    \/ ReturnParse
    \/ TransformNext

SpecDetect == DetectInit /\ [][DetectNext]_vars

(* The converters: one call of one converter of a dialect on one node *)

ConvertInit ==
    /\ vfn \in Converters
    /\ vdialect \in {"V2_2", "V3"}
    /\ vnode \in ConvertInputs(vfn, vdialect)
    /\ vresult = <<>>
    /\ vpc = "input"
    /\ DetectIdle
    /\ ClassifyIdle
    /\ AssemblerIdle
    /\ TransformIdle
    /\ AttrIdle

\* parse_time_consumed; an overflow wraps around here (a build that does not
\* check arithmetic)
CallParseTimeConsumed ==
    /\ vpc = "input"
    /\ vfn = "parse_time_consumed"
    /\ vresult' = parse_time_consumed(vdialect, vnode)
    /\ vpc' = "done"
    /\ UNCHANGED <<vfn, vdialect, vnode>>
    /\ UNCHANGED <<detectVars, classifyVars, assemblerVars, transformVars, attrVars>>

\* parse_time_consumed on a token whose milliseconds overflow, in a build
\* that checks arithmetic: the panic ends the call
AbortParseTimeConsumed ==
    /\ vpc = "input"
    /\ vfn = "parse_time_consumed"
    /\ parse_time_consumed_overflows(vdialect, vnode)
    /\ vpc' = "abort"
    /\ UNCHANGED <<vfn, vdialect, vnode, vresult>>
    /\ UNCHANGED <<detectVars, classifyVars, assemblerVars, transformVars, attrVars>>

\* parse_normal_move, the same in both dialects
CallParseNormalMove ==
    /\ vpc = "input"
    /\ vfn = "parse_normal_move"
    /\ vresult' = parse_normal_move(vnode)
    /\ vpc' = "done"
    /\ UNCHANGED <<vfn, vdialect, vnode>>
    /\ UNCHANGED <<detectVars, classifyVars, assemblerVars, transformVars, attrVars>>

\* parse_player_name, the same in both dialects
CallParsePlayerName ==
    /\ vpc = "input"
    /\ vfn = "parse_player_name"
    /\ vresult' = parse_player_name(vnode)
    /\ vpc' = "done"
    /\ UNCHANGED <<vfn, vdialect, vnode>>
    /\ UNCHANGED <<detectVars, classifyVars, assemblerVars, transformVars, attrVars>>

\* parse_grid, the same in both dialects
CallParseGrid ==
    /\ vpc = "input"
    /\ vfn = "parse_grid"
    /\ vresult' = parse_grid(vnode)
    /\ vpc' = "done"
    /\ UNCHANGED <<vfn, vdialect, vnode>>
    /\ UNCHANGED <<detectVars, classifyVars, assemblerVars, transformVars, attrVars>>

\* v2_2::parse_minishogi_grid
CallParseMinishogiGrid ==
    /\ vpc = "input"
    /\ vfn = "parse_minishogi_grid"
    /\ vresult' = parse_minishogi_grid(vnode)
    /\ vpc' = "done"
    /\ UNCHANGED <<vfn, vdialect, vnode>>
    /\ UNCHANGED <<detectVars, classifyVars, assemblerVars, transformVars, attrVars>>

\* v2_2::parse_wildcat_grid
CallParseWildcatGrid ==
    /\ vpc = "input"
    /\ vfn = "parse_wildcat_grid"
    /\ vresult' = parse_wildcat_grid(vnode)
    /\ vpc' = "done"
    /\ UNCHANGED <<vfn, vdialect, vnode>>
    /\ UNCHANGED <<detectVars, classifyVars, assemblerVars, transformVars, attrVars>>

\* parse_piece_placements of the dialect
CallParsePiecePlacements ==
    /\ vpc = "input"
    /\ vfn = "parse_piece_placements"
    /\ vresult' = IF vdialect = "V2_2" THEN v2_2_parse_piece_placements(vnode)
                  ELSE v3_parse_piece_placements(vnode)
    /\ vpc' = "done"
    /\ UNCHANGED <<vfn, vdialect, vnode>>
    /\ UNCHANGED <<detectVars, classifyVars, assemblerVars, transformVars, attrVars>>

\* parse_timelimit, the same in both dialects; an overflow wraps around here
\* (a build that does not check arithmetic)
CallParseTimelimit ==
    /\ vpc = "input"
    /\ vfn = "parse_timelimit"
    /\ vresult' = parse_timelimit(vnode)
    /\ vpc' = "done"
    /\ UNCHANGED <<vfn, vdialect, vnode>>
    /\ UNCHANGED <<detectVars, classifyVars, assemblerVars, transformVars, attrVars>>

\* parse_timelimit on figures whose seconds overflow, in a build that checks
\* arithmetic: the panic ends the call
AbortParseTimelimit ==
    /\ vpc = "input"
    /\ vfn = "parse_timelimit"
    /\ parse_timelimit_overflows(vnode)
    /\ vpc' = "abort"
    /\ UNCHANGED <<vfn, vdialect, vnode, vresult>>
    /\ UNCHANGED <<detectVars, classifyVars, assemblerVars, transformVars, attrVars>>

\* v2_2::try_parse_timelimit_str on the text of a value; an overflow wraps
\* around here
CallTryParseTimelimitStr ==
    /\ vpc = "input"
    /\ vfn = "try_parse_timelimit_str"
    /\ vresult' = try_parse_timelimit_str(vnode)
    /\ vpc' = "done"
    /\ UNCHANGED <<vfn, vdialect, vnode>>
    /\ UNCHANGED <<detectVars, classifyVars, assemblerVars, transformVars, attrVars>>

\* try_parse_timelimit_str on figures whose seconds overflow, in a build
\* that checks arithmetic
AbortTryParseTimelimitStr ==
    /\ vpc = "input"
    /\ vfn = "try_parse_timelimit_str"
    /\ try_parse_timelimit_str_overflows(vnode)
    /\ vpc' = "abort"
    /\ UNCHANGED <<vfn, vdialect, vnode, vresult>>
    /\ UNCHANGED <<detectVars, classifyVars, assemblerVars, transformVars, attrVars>>

\* parse_datetime of the dialect
CallParseDatetime ==
    /\ vpc = "input"
    /\ vfn = "parse_datetime"
    /\ vresult' = parse_datetime(vdialect, vnode)
    /\ vpc' = "done"
    /\ UNCHANGED <<vfn, vdialect, vnode>>
    /\ UNCHANGED <<detectVars, classifyVars, assemblerVars, transformVars, attrVars>>

ConvertNext ==
    \/ CallParseTimeConsumed
    \/ AbortParseTimeConsumed
    \/ CallParseNormalMove
    \/ CallParsePlayerName
    \/ CallParseGrid
    \/ CallParseMinishogiGrid
    \/ CallParseWildcatGrid
    \/ CallParsePiecePlacements
    \/ CallParseTimelimit
    \/ AbortParseTimelimit
    \/ CallTryParseTimelimitStr
    \/ AbortTryParseTimelimitStr
    \/ CallParseDatetime

SpecConvert == ConvertInit /\ [][ConvertNext]_vars

(* The attribute handler: one call of a dialect's parse_game_attr on a
   fresh record *)

AttrInit ==
    /\ adialect \in {"V2_2", "V3"}
    /\ ainput \in AttrInputs
    /\ arecord = GameRecordDefault
    /\ apc = "input"
    /\ DetectIdle
    /\ ClassifyIdle
    /\ AssemblerIdle
    /\ TransformIdle
    /\ ConvertIdle

\* the call on a value whose time-limit sum overflows, in a build that
\* checks arithmetic: the panic ends the call
AbortParseGameAttr ==
    /\ apc = "input"
    /\ parse_game_attr_overflows(adialect, GrammarGameAttr(ainput))
    /\ apc' = "abort"
    /\ UNCHANGED <<adialect, ainput, arecord>>
    /\ UNCHANGED <<detectVars, classifyVars, assemblerVars, transformVars, convertVars>>

\* the call; an overflow wraps around here (a build that does not check
\* arithmetic)
CallParseGameAttr ==
    /\ apc = "input"
    /\ arecord' = parse_game_attr(adialect, GrammarGameAttr(ainput), arecord)
    /\ apc' = "done"
    /\ UNCHANGED <<adialect, ainput>>
    /\ UNCHANGED <<detectVars, classifyVars, assemblerVars, transformVars, convertVars>>

AttrNext == CallParseGameAttr \/ AbortParseGameAttr

SpecAttr == AttrInit /\ [][AttrNext]_vars

-----------------------------------------------------------------------------
(* Properties of the dialect detector and facade *)

\* vocabulary of the claims about lines
IsBlankLine(l) == Trim(l) = <<>>
IsCommentLine(l) == StartsWith(Trim(l), Apostrophe)
IsEncodingLine(l) == StartsWith(Trim(l), EncodingPrefix)
IsOrdinaryComment(l) == IsCommentLine(l) /\ ~IsEncodingLine(l)
IsSubstantive(l) == ~IsBlankLine(l) /\ ~IsCommentLine(l)

VersionTokens ==
    {<<tokV2, "V2">>, <<tokV2_1, "V2_1">>, <<tokV2_2, "V2_2">>, <<tokV3_0, "V3">>}
IsVersionToken(t) == \E p \in VersionTokens : p[1] = t

\* i is the first substantive line of ls
FirstSubstantive(ls, i) ==
    /\ i \in 1..Len(ls)
    /\ IsSubstantive(ls[i])
    /\ \A j \in 1..(i - 1) : ~IsSubstantive(ls[j])

\* no encoding declaration among the lines before line i
NoEncodingBefore(ls, i) == \A j \in 1..(i - 1) : ~IsEncodingLine(ls[j])

\* C1: when every line before the first substantive line is blank or an
\* ordinary comment, and that line trims to V2, V2.1, V2.2 or V3.0, the
\* detector returns exactly that dialect.
C1_VersionTokenSelectsDialect ==
    dpc # "input" =>
        \A i \in 1..Len(Lines(input)) : \A p \in VersionTokens :
            ( /\ FirstSubstantive(Lines(input), i)
              /\ NoEncodingBefore(Lines(input), i)
              /\ Trim(Lines(input)[i]) = p[1] )
            => detected = Some(p[2])

\* C1 witness: a padded V2.2 line after a comment and a blank line was detected
C1_Witness ==
    /\ dpc = "detected"
    /\ Len(Lines(input)) = 3
    /\ IsOrdinaryComment(Lines(input)[1])
    /\ IsBlankLine(Lines(input)[2])
    /\ Lines(input)[3] = lineV22Pad
    /\ detected = Some("V2_2")

\* the result the claim C2 promises: no dialect, and a facade call ends in
\* an error without having run a dialect parser
NoDialectOutcome ==
    /\ detected = None
    /\ (dpc = "parsed" => (IsErr(outcome) /\ ran = {}))

OnlyBlankOrOrdinaryComments(ls) ==
    \A i \in 1..Len(ls) : IsBlankLine(ls[i]) \/ IsOrdinaryComment(ls[i])

\* C2 as stated: if the first line that is neither blank nor an apostrophe
\* comment is not a version token, or the input holds only blank and
\* ordinary comment lines, the detector returns None and the facade fails
\* without running a dialect parser.
C2_Original ==
    (dpc # "input" /\
        ( \/ \E i \in 1..Len(Lines(input)) :
                /\ FirstSubstantive(Lines(input), i)
                /\ ~IsVersionToken(Trim(Lines(input)[i]))
          \/ OnlyBlankOrOrdinaryComments(Lines(input)) ))
    => NoDialectOutcome

\* C2 amended: the same, provided no encoding declaration precedes that
\* first substantive line.
C2_NoTokenNoDialect ==
    (dpc # "input" /\
        ( \/ \E i \in 1..Len(Lines(input)) :
                /\ FirstSubstantive(Lines(input), i)
                /\ NoEncodingBefore(Lines(input), i)
                /\ ~IsVersionToken(Trim(Lines(input)[i]))
          \/ OnlyBlankOrOrdinaryComments(Lines(input)) ))
    => NoDialectOutcome

\* C2 witness: the facade was called on a text whose first substantive line
\* is the near miss V2.3 and returned the no-version error
C2_Witness ==
    /\ dpc = "parsed"
    /\ Len(Lines(input)) >= 2
    /\ IsOrdinaryComment(Lines(input)[1])
    /\ Lines(input)[2] = lineV23
    /\ outcome \in {Err("csa::ParseError", NoVersionMsg),
                    Err("CsaError::ParseError", NoVersionMsg)}
    /\ ran = {}

\* i is the first decisive line and it is an encoding declaration
EncodingDecides(ls, i) ==
    /\ i \in 1..Len(ls)
    /\ IsEncodingLine(ls[i])
    /\ \A j \in 1..(i - 1) : IsBlankLine(ls[j]) \/ IsOrdinaryComment(ls[j])

\* C3: an encoding declaration reached before any version token or other
\* substantive line selects V3, whatever follows it.
C3_EncodingSelectsNewest ==
    dpc # "input" =>
        ( (\E i \in 1..Len(Lines(input)) : EncodingDecides(Lines(input), i))
          => detected = Some("V3") )

\* C3 witness: an encoding declaration followed by an explicit V2 line
C3_Witness ==
    /\ dpc = "detected"
    /\ Len(Lines(input)) >= 2
    /\ IsEncodingLine(Lines(input)[1])
    /\ Lines(input)[2] = tokV2
    /\ detected = Some("V3")

\* the record the parser of dialect v builds from the text of a source
RecordOf(v, src) == transform(v, GrammarGameRecord(VersionToken(v), src))

\* the text of the source src in the dialect v
IsTextOf(text, v, src) == text = SourceText(VersionToken(v), src)

\* C16 as stated: a call of the facade (csa::parse, parse_csa) ends, and in
\* a record or in one error, never both; with no dialect detected it is the
\* no-version error and no dialect parser has run; a grammar rejection
\* arrives as the facade's error type with the message of the dialect
\* parser unchanged; a record was produced by the parser of the detected
\* dialect, the only one that ran.
C16_Original ==
    /\ ~(dpc = "in_parse" /\ ppc = "abort")
    /\ dpc = "parsed" =>
          /\ IsOk(outcome) # IsErr(outcome)
          /\ ran \subseteq (IF detected = None THEN {} ELSE {Unwrap(detected)})
          /\ IsErr(outcome) =>
                /\ outcome[2] \in {"csa::ParseError", "CsaError::ParseError"}
                /\ outcome[3] = (IF detected = None THEN NoVersionMsg ELSE GrammarMsg)
          /\ IsOk(outcome) =>
                /\ detected # None
                /\ ran = {Unwrap(detected)}
                /\ \A v \in {"V2_2", "V3"} : \A src \in FacadeSources(v) :
                      (detected = Some(v) /\ IsTextOf(input, v, src))
                          => outcome[2] = RecordOf(v, src)

\* C16 witness: the call on the V2.2 text with the time limit of
\* 5124095576030432 hours did not return
C16_Witness ==
    /\ dpc = "in_parse"
    /\ ppc = "abort"
    /\ parse_overflows(input)
    /\ detected = Some("V2_2")
    /\ ran = {"V2_2"}
    /\ \E src \in FacadeSources("V2_2") :
          /\ src.attrs = <<attrLimitOverflow>>
          /\ src.mlines = <<>>
          /\ IsTextOf(input, "V2_2", src)
    /\ outcome = <<>>

\* i is the first decisive line of ls: an encoding declaration, or a line
\* neither blank nor a comment, after blank lines and ordinary comments only
FirstDecisive(ls, i) ==
    /\ i \in 1..Len(ls)
    /\ IsEncodingLine(ls[i]) \/ IsSubstantive(ls[i])
    /\ \A j \in 1..(i - 1) : IsBlankLine(ls[j]) \/ IsOrdinaryComment(ls[j])

\* what can follow the decisive line in another input: nothing, any one
\* line, or two lines that would each select a dialect
Continuations ==
    {<<>>} \cup {<<l>> : l \in LineTexts} \cup {<<tokV3_0, linePI>>, <<lineEnc, tokV2>>}

\* blank lines and ordinary comments
NeutralLines == {<<>>, lineBlank, <<"\t", " ">>, lineCmt, <<" ">> \o lineCmt}

InsertAt(ls, i, l) == SubSeq(ls, 1, i - 1) \o <<l>> \o SubSeq(ls, i, Len(ls))
RemoveAt(ls, i) == SubSeq(ls, 1, i - 1) \o SubSeq(ls, i + 1, Len(ls))

\* C20: the result of detect_version is fixed by the lines up to and
\* including the first decisive line: every input with the same lines up to
\* there gives the same result whatever follows, and so does every input
\* got by inserting or removing a blank line or an ordinary comment before
\* the decisive line.
C20_DecidedByPrefix ==
    dpc = "detected" =>
        \A i \in 1..Len(Lines(input)) :
            FirstDecisive(Lines(input), i) =>
                /\ \A rest \in Continuations : \A term \in BOOLEAN :
                      detect_version(Join(SubSeq(Lines(input), 1, i) \o rest, term)) = detected
                /\ \A j \in 1..i : \A l \in NeutralLines :
                      detect_version(Join(InsertAt(Lines(input), j, l), TRUE)) = detected
                /\ \A j \in 1..(i - 1) :
                      detect_version(Join(RemoveAt(Lines(input), j), TRUE)) = detected

\* C20 witness: a comment, a line that is no version token, then V3.0: the
\* second line decided, and the detector returned None
C20_Witness ==
    /\ dpc = "detected"
    /\ Lines(input) = <<lineCmt, linePI, tokV3_0>>
    /\ FirstDecisive(Lines(input), 2)
    /\ detected = None

-----------------------------------------------------------------------------
(* Properties of the move-stream assembler *)

IsActionNode(n) == n.rule = "move_record"
IsTimeNode(n) == n.rule = "time_consumed"

\* the positions of the action nodes among the first n children, in order
RECURSIVE ActionPositions(_, _)
ActionPositions(nodes, n) ==
    IF n = 0 THEN <<>>
    ELSE IF IsActionNode(nodes[n])
         THEN Append(ActionPositions(nodes, n - 1), n)
         ELSE ActionPositions(nodes, n - 1)

\* the elapsed time the action node at position i must carry
TimeAfter(d, nodes, i) ==
    IF i < Len(nodes) /\ IsTimeNode(nodes[i + 1])
    THEN Some(parse_time_consumed(d, nodes[i + 1]))
    ELSE None

\* the children are action nodes and elapsed-time nodes only
OnlyStreamNodes(nodes) ==
    \A k \in 1..Len(nodes) : IsActionNode(nodes[k]) \/ IsTimeNode(nodes[k])

\* C4: for a sequence of action nodes and elapsed-time nodes, when the loop
\* has ended, the record of each action node carries Some(d) exactly when an
\* elapsed-time node directly follows the action node, d being that node's
\* duration, and None otherwise.
C4_TimePairedWithPrecedingAction ==
    (mpc = "done" /\ OnlyStreamNodes(mnodes)) =>
        LET pos == ActionPositions(mnodes, Len(mnodes))
        IN  /\ Len(moves) = Len(pos)
            /\ \A k \in 1..Len(pos) :
                  /\ moves[k].time = TimeAfter(mdialect, mnodes, pos[k])
                  /\ IsSome(moves[k].time) <=>
                        (pos[k] < Len(mnodes) /\ IsTimeNode(mnodes[pos[k] + 1]))

\* C4 witness: move, T12, event: the first record carries 12 s, the second none
C4_Witness ==
    /\ mpc = "done"
    /\ mnodes = <<GrammarMoveRecord(lineMove), GrammarTimeConsumed(lineT12),
                  GrammarMoveRecord(lineToryo)>>
    /\ moves = <<MoveRecord(ActMove(Black, Square(2, 7), Square(2, 6), "Pawn"),
                            Some(from_secs(NumOf(12)))),
                 MoveRecord(ActToryo, None)>>

\* C5: at every step the records emitted, plus the pending action if any,
\* are the actions of the action nodes consumed so far, one each and in
\* their order; after the end of input nothing is pending.
C5_OneRecordPerActionInOrder ==
    LET pos == ActionPositions(mnodes, mi)
        held == IF IsSome(pending) THEN 1 ELSE 0
    IN  mpc \in {"loop", "done"} =>
           /\ Len(moves) + held = Len(pos)
           /\ \A k \in 1..Len(moves) :
                 moves[k].action = parse_move_record_action(mdialect, mnodes[pos[k]])
           /\ IsSome(pending) =>
                 Unwrap(pending) = parse_move_record_action(mdialect, mnodes[pos[Len(pos)]])
           /\ mpc = "done" => (pending = None /\ mi = Len(mnodes))

\* C5 witness: three action nodes in a row ended in three records
C5_Witness ==
    /\ mpc = "done"
    /\ mnodes = <<GrammarMoveRecord(lineToryo), GrammarMoveRecord(lineMove), EmptyMoveRecord>>
    /\ Len(moves) = 3
    /\ moves[1].action = ActToryo
    /\ moves[3].action = ActError
    /\ pending = None

\* C21: an elapsed-time node taken by the loop while no action is pending
\* (as the first node, or directly after another elapsed-time node) leaves
\* the emitted records and the empty pending slot unchanged and the loop
\* goes on to the next node; at the end, in a sequence of action nodes and
\* elapsed-time nodes, no record of an action that is not directly followed
\* by an elapsed-time node carries a time.
C21_TimeWithoutPendingIgnored ==
    /\ [][(/\ mpc = "loop"
            /\ mi < Len(mnodes)
            /\ IsTimeNode(mnodes[mi + 1])
            /\ pending = None)
           => (/\ moves' = moves
               /\ pending' = None
               /\ mi' = mi + 1
               /\ mpc' = "loop")]_vars
    /\ []((mpc = "done" /\ OnlyStreamNodes(mnodes)) =>
            LET pos == ActionPositions(mnodes, Len(mnodes))
            IN  \A k \in 1..Len(moves) :
                   (k <= Len(pos) /\ ~(pos[k] < Len(mnodes) /\ IsTimeNode(mnodes[pos[k] + 1])))
                      => moves[k].time = None)

\* C21 witness: T15.12 arrives directly after T12 and before the event: the
\* move keeps its 12 s and the event has no time
C21_Witness ==
    /\ mpc = "done"
    /\ mdialect = "V3"
    /\ mnodes = <<GrammarMoveRecord(lineMove), GrammarTimeConsumed(lineT12),
                  GrammarTimeConsumed(lineT15_12), GrammarMoveRecord(lineToryo)>>
    /\ moves = <<MoveRecord(ActMove(Black, Square(2, 7), Square(2, 6), "Pawn"),
                            Some(from_secs(NumOf(12)))),
                 MoveRecord(ActToryo, None)>>

-----------------------------------------------------------------------------
(* Properties of the event classifier *)

\* the checks of the called dialect's chain
ChecksOf(d) == IF d = "V2_2" THEN SpecialMovesV22 ELSE SpecialMovesV3

\* the positions of the chain whose substring occurs in token t
MatchingChecks(d, t) ==
    {k \in 1..Len(ChecksOf(d)) : Contains(t, ChecksOf(d)[k][1])}

tokPlusIllegalAction == EventToken(<<"+">>, kwIllegalAction)
tokMinusIllegalAction == EventToken(<<"-">>, kwIllegalAction)
tokIllegalMove == EventToken(<<>>, kwIllegalMove)

\* C8: in both dialects a token containing +ILLEGAL_ACTION classifies to
\* IllegalAction(Black), one containing -ILLEGAL_ACTION to
\* IllegalAction(White) and %ILLEGAL_MOVE to IllegalMove; each of the three
\* wire tokens matches exactly one check of the chain, so the result does
\* not depend on the order of the checks.
C8_IllegalEventsKeptApart ==
    cpc = "classified" =>
        /\ Contains(ctoken, kwPlusIllegalAction) => cresult = ActIllegalAction(Black)
        /\ Contains(ctoken, kwMinusIllegalAction) => cresult = ActIllegalAction(White)
        /\ ctoken = tokIllegalMove => cresult = ActIllegalMove
        /\ ctoken \in {tokPlusIllegalAction, tokMinusIllegalAction, tokIllegalMove}
              => Cardinality(MatchingChecks(cdialect, ctoken)) = 1

\* C8 witness: the V3.0 classifier returned IllegalAction(White) for
\* %-ILLEGAL_ACTION
C8_Witness ==
    /\ cpc = "classified"
    /\ cdialect = "V3"
    /\ ctoken = tokMinusIllegalAction
    /\ cresult = ActIllegalAction(White)

\* the twelve wire tokens and the event each stands for
WireEvents ==
    { <<EventToken(<<>>, kwToryo), ActToryo>>,
      <<EventToken(<<>>, kwChudan), ActChudan>>,
      <<EventToken(<<>>, kwSennichite), ActSennichite>>,
      <<EventToken(<<>>, kwTimeUp), ActTimeUp>>,
      <<tokIllegalMove, ActIllegalMove>>,
      <<tokPlusIllegalAction, ActIllegalAction(Black)>>,
      <<tokMinusIllegalAction, ActIllegalAction(White)>>,
      <<EventToken(<<>>, kwJishogi), ActJishogi>>,
      <<EventToken(<<>>, kwKachi), ActKachi>>,
      <<EventToken(<<>>, kwHikiwake), ActHikiwake>>,
      <<EventToken(<<>>, kwTsumi), ActTsumi>>,
      <<EventToken(<<>>, kwFuzumi), ActFuzumi>> }

\* C9: in both dialects each of the twelve wire tokens classifies to its own
\* event; the twelve events are pairwise distinct and none is Error.
C9_WireTokensClassified ==
    /\ Cardinality({w[2] : w \in WireEvents}) = 12
    /\ \A w \in WireEvents : w[2] # ActError
    /\ cpc = "classified" =>
          \A w \in WireEvents : ctoken = w[1] => cresult = w[2]

\* C9 witness: the V2.2 classifier returned Fuzumi for %FUZUMI
C9_Witness ==
    /\ cpc = "classified"
    /\ cdialect = "V2_2"
    /\ ctoken = EventToken(<<>>, kwFuzumi)
    /\ cresult = ActFuzumi

tokMatta == EventToken(<<>>, kwMatta)

\* C10 as stated: neither the V2.2 nor the V3.0 classifier returns Matta for
\* any token, and both route %MATTA to Error.
C10_Original ==
    cpc = "classified" =>
        /\ cresult # ActMatta
        /\ ctoken = tokMatta => cresult = ActError

\* C10 amended: the V3.0 classifier never returns Matta and routes %MATTA
\* to Error; the V2.2 classifier still recognizes the retracted-move event
\* and returns Matta for %MATTA.
C10_MattaOnlyBeforeV3 ==
    cpc = "classified" =>
        /\ cdialect = "V3" =>
              /\ cresult # ActMatta
              /\ ctoken = tokMatta => cresult = ActError
        /\ (cdialect = "V2_2" /\ ctoken = tokMatta) => cresult = ActMatta

\* C10 witness: the V3.0 classifier was given %MATTA and returned Error
C10_Witness ==
    /\ cpc = "classified"
    /\ cdialect = "V3"
    /\ ctoken = tokMatta
    /\ cresult = ActError

-----------------------------------------------------------------------------
(* Properties of the transformers *)

LastLine(src) == src.mlines[Len(src.mlines)]

\* the text ends with a terminal event line
EndsWithEvent(src) == src.mlines # <<>> /\ IsEventLine(LastLine(src))

\* the same text with the terminator of the last line added or removed,
\* under either shape of the unterminated line
OtherTermination(src) ==
    {alt \in {[src EXCEPT !.term = ~src.term, !.shape = sh] :
                 sh \in {"final_move", "in_records"}} : ValidSource(alt)}

\* the event a terminal event line stands for
EventOfLine(line) ==
    LET events == {w[2] : w \in {x \in WireEvents : x[1] = line}}
    IN  IF events = {} THEN ActError ELSE CHOOSE e \in events : TRUE

src7776Tsumi(src) == src.mlines = <<line7776, lineTsumi>>

rec7776 == MoveRecord(ActMove(Black, Square(7, 7), Square(7, 6), "Pawn"), None)

\* C6: a V2.2 text whose last line is a terminal event yields the same move
\* records with and without a terminator after that line, and the last
\* record is that event with no time; +7776FU then %TSUMI yields two
\* records, the second being Tsumi with time None.
C6_TerminatorIndependent ==
    (ppc = "done" /\ pdialect = "V2_2" /\ EndsWithEvent(psrc)) =>
        /\ \A alt \in OtherTermination(psrc) :
              record.moves = transform(pdialect, GrammarGameRecord(tokV2_2, alt)).moves
        /\ record.moves # <<>>
        /\ record.moves[Len(record.moves)] = MoveRecord(EventOfLine(LastLine(psrc)), None)
        /\ (src7776Tsumi(psrc) => record.moves = <<rec7776, MoveRecord(ActTsumi, None)>>)

\* the regression case, parsed without terminator as a final_move node
C6_Witness ==
    /\ ppc = "done"
    /\ pdialect = "V2_2"
    /\ src7776Tsumi(psrc)
    /\ ~psrc.term
    /\ psrc.shape = "final_move"
    /\ record.moves = <<rec7776, MoveRecord(ActTsumi, None)>>

\* the text has a native grid section / placement lines
SuppliesGrid(src) == \E k \in 1..Len(src.position) : IsGridLine(src.position[k])
SuppliesPlacements(src) == \E k \in 1..Len(src.position) : IsPlacementLine(src.position[k])

\* the grid fields of the position that are populated
PopulatedGrids(pos) ==
    {f \in {"bulk", "minishogi_bulk", "wildcat_bulk"} : IsSome(pos[f])}

\* C7: after a text with a native grid section exactly one of bulk,
\* minishogi_bulk and wildcat_bulk is Some; after a text with placement
\* lines and no grid all three are None; two of them are never Some together.
C7_OneGridField ==
    /\ Cardinality(PopulatedGrids(record.start_pos)) <= 1
    /\ ((ppc = "done" /\ SuppliesGrid(psrc)) =>
            Cardinality(PopulatedGrids(record.start_pos)) = 1)
    /\ ((ppc = "done" /\ SuppliesPlacements(psrc) /\ ~SuppliesGrid(psrc)) =>
            PopulatedGrids(record.start_pos) = {})

\* a minishogi grid has been walked: minishogi_bulk alone is populated
C7_Witness ==
    /\ ppc = "done"
    /\ psrc.position = posMinishogi
    /\ PopulatedGrids(record.start_pos) = {"minishogi_bulk"}

\* the action lines of the move section, in order
IsActionLine(line) == ~IsTimeLine(line)
ActionLines(src) == SelectSeq(src.mlines, IsActionLine)

\* C15: parse never aborts, and when it has returned (always Ok) every
\* action line has its move record, the record of an event token that
\* names no event being Action::Error.
C15_Original ==
    /\ ppc # "abort"
    /\ ppc = "done" =>
          /\ Len(record.moves) = Len(ActionLines(psrc))
          /\ \A k \in 1..Len(ActionLines(psrc)) :
                ActionLines(psrc)[k] = lineMaxMoves => record.moves[k].action = ActError

\* C15 witness: a text with an event token that names no V2.2 event was
\* transformed, the token giving an Action::Error record
C15_Witness ==
    /\ ppc = "done"
    /\ pdialect = "V2_2"
    /\ psrc.mlines = <<line7776, lineMaxMoves>>
    /\ record.moves = <<rec7776, MoveRecord(ActError, None)>>

\* the text V2.2 / N+NAKAHARA / N-YONENAGA / $EVENT:Test / PI / + /
\* +2726FU / T12 / %TORYO, every line terminated
srcScenario ==
    [header |-> <<lineBlackName, lineWhiteName>>, attrs |-> <<attrEventTest>>,
     position |-> posPI, side |-> <<"+">>, mlines |-> <<lineMove, lineT12, lineToryo>>,
     term |-> TRUE, shape |-> "in_records"]

\* C17: the V2.2 transformer turns that text into a record with black
\* player NAKAHARA, white player YONENAGA, event Test and exactly two move
\* records: Move(Black, (2,7), (2,6), Pawn) with 12 s, then Toryo without
\* time.
C17_EndToEnd ==
    (ppc = "done" /\ pdialect = "V2_2" /\ psrc = srcScenario) =>
        /\ record.black_player = Some(nameNakahara)
        /\ record.white_player = Some(<<"Y", "O", "N", "E", "N", "A", "G", "A">>)
        /\ record.event = Some(textTest)
        /\ record.moves =
              <<MoveRecord(ActMove(Black, Square(2, 7), Square(2, 6), "Pawn"),
                           Some(from_secs(NumOf(12)))),
                MoveRecord(ActToryo, None)>>

\* C17 witness: the text was transformed to the end
C17_Witness ==
    /\ ppc = "done"
    /\ pdialect = "V2_2"
    /\ psrc = srcScenario
    /\ Len(record.moves) = 2
    /\ record.event = Some(textTest)

\* some line of the text makes u64 arithmetic overflow
HasOverflowingLine(src) ==
    \/ \E k \in 1..Len(src.mlines) : src.mlines[k] = lineTOverflow
    \/ \E k \in 1..Len(src.attrs) : src.attrs[k] = attrLimitOverflow

\* C19: the V3.0 classifier returns Action::Error, and no event, for every
\* token containing MAX_MOVES; in a V3.0 text such a token still gives a
\* move record, with the action Error, and does not make parse fail.
C19_MaxMovesIsError ==
    /\ \A tok \in EventTokens :
          Contains(tok, kwMaxMoves) => v3_parse_special_move(tok) = ActError
    /\ pdialect = "V3" =>
          /\ ppc = "abort" => HasOverflowingLine(psrc)
          /\ ppc = "done" =>
                /\ Len(record.moves) = Len(ActionLines(psrc))
                /\ \A k \in 1..Len(ActionLines(psrc)) :
                      Contains(ActionLines(psrc)[k], kwMaxMoves) =>
                          record.moves[k].action = ActError

\* C19 witness: a V3.0 text ending in %MAX_MOVES was transformed, the token
\* giving the second record
C19_Witness ==
    /\ ppc = "done"
    /\ pdialect = "V3"
    /\ psrc.mlines = <<lineMove, lineMaxMoves>>
    /\ Len(record.moves) = 2
    /\ record.moves[2] = MoveRecord(ActError, None)

-----------------------------------------------------------------------------
(* Properties of the attribute handler *)

\* the record parse_game_attr leaves when the same value arrives in form f
AttrResult(d, in, f) ==
    parse_game_attr(d, GrammarGameAttr([in EXCEPT !.form = f]), GameRecordDefault)

\* the form of the structured node for the value of the input
StructuredForm(in) == IF in.text \in TimeLimitTexts THEN "timelimit" ELSE "datetime"

\* a START_TIME / END_TIME value of the form date[ time], a TIME_LIMIT value
\* of the form HH:MM+SS
TemporalInput(in) ==
    \/ (in.key \in {keyStartTime, keyEndTime} /\ in.text \in DateTimeTexts)
    \/ (in.key = keyTimeLimit /\ in.text \in TimeLimitTexts)

\* C11: in every dialect, a START_TIME, END_TIME or TIME_LIMIT value that
\* arrives as free text sets the timestamp or the time limit just as the
\* structured node of the same value does.
C11_Original ==
    (apc = "done" /\ ainput.form = "text" /\ TemporalInput(ainput)) =>
        arecord = AttrResult(adialect, ainput, StructuredForm(ainput))

\* C12: in V2.2, for every hours, minutes and byoyomi digit string the
\* structured path and the free-text path give the same time limit;
\* 00:25+60 gives main time 1500 s and byoyomi 60 s by either path.
C12_Original ==
    (apc = "done" /\ adialect = "V2_2" /\ ainput.key = keyTimeLimit
        /\ ainput.text \in TimeLimitTexts) =>
        /\ AttrResult("V2_2", ainput, "timelimit").time_limit
              = AttrResult("V2_2", ainput, "text").time_limit
        /\ (ainput.text = textLimit25 =>
              arecord.time_limit = Some(TimeLimit(from_secs(NumOf(1500)), from_secs(NumOf(60)))))

\* the walk is about to take a child of the given rule
AtNode(rule) == ppc = "walk" /\ pidx < Len(Tree) /\ Tree[pidx + 1].rule = rule

\* the colour a side-to-move sign stands for
ColourOfSign(sign) == IF sign = <<"-">> THEN White ELSE Black

\* the position node of the text
PositionNode == Unwrap(FirstOfRule(Tree, "position"))

\* C26: the step on the position node stores the position parsed from that
\* node alone, whatever side to move the record held before, with the
\* default side to move, and leaves the rest of the record alone; the step
\* on the side-to-move node changes only the side-to-move field; so at the
\* end the side to move is that of the sign (+ Black, - White) and the
\* handicap list, the grids and the placements are as the position node set
\* them.
C26_PositionThenSideToMove ==
    /\ [][AtNode("position") =>
            /\ record'.start_pos = parse_position(pdialect, Tree[pidx + 1])
            /\ record'.start_pos.side_to_move = PositionDefault.side_to_move
            /\ \A c \in {Black, White} :
                  OnPosition(pdialect, [record EXCEPT !.start_pos.side_to_move = c],
                             Tree[pidx + 1]) = record'
            /\ record' = [record EXCEPT !.start_pos = record'.start_pos]]_vars
    /\ [][AtNode("side_to_move") =>
            record' = [record EXCEPT !.start_pos.side_to_move = ColourOfSign(psrc.side)]]_vars
    /\ [](ppc = "done" =>
            record.start_pos = [parse_position(pdialect, PositionNode)
                                   EXCEPT !.side_to_move = ColourOfSign(psrc.side)])

\* C26 witness: a grid and placement lines, then the sign "-": White to
\* move, the grid and the five placements kept
C26_Witness ==
    /\ ppc = "done"
    /\ psrc.position = posGrid \o posPlacements
    /\ psrc.side = <<"-">>
    /\ record.start_pos.side_to_move = White
    /\ record.start_pos.bulk = Some(parse_grid(GrammarGrid(posGrid)))
    /\ Len(record.start_pos.add_pieces) = 5
    /\ record.start_pos.drop_pieces = <<>>

\* the key of a game_attr node and the kind of its value
AttrKeyOf(node) == Unwrap(FirstOfRule(node.inner, "attr_key")).text
AttrKindOf(node) == Unwrap(FirstOfRule(node.inner, "attr_value")).inner[1].rule

\* the field of the record an attribute key names, "" for any other key
OwnField(key) ==
    CASE key = keyEvent -> "event"
      [] key = keySite -> "site"
      [] key = keyOpening -> "opening"
      [] key = keyStartTime -> "start_time"
      [] key = keyEndTime -> "end_time"
      [] key = keyTimeLimit -> "time_limit"
      [] OTHER -> ""

\* the key is none of the six, or the kind of the value does not fit it
Unrecognized(key, kind) ==
    \/ OwnField(key) = ""
    \/ (kind = "datetime" /\ key \notin {keyStartTime, keyEndTime})
    \/ (kind = "timelimit" /\ key # keyTimeLimit)

\* C27: the step on an attribute node whose key is not one of EVENT, SITE,
\* OPENING, START_TIME, END_TIME, TIME_LIMIT, or whose datetime / time-limit
\* value stands under a key of another kind, goes on to the next node with
\* the record unchanged and never ends the walk; the step on any other
\* attribute node that returns leaves every field but the one of its key
\* unchanged.
C27_AttrFrame ==
    [][AtNode("game_attr") =>
        LET key == AttrKeyOf(Tree[pidx + 1])
            kind == AttrKindOf(Tree[pidx + 1])
        IN  IF Unrecognized(key, kind)
            THEN record' = record /\ pidx' = pidx + 1 /\ ppc' = "walk"
            ELSE ppc' = "walk" =>
                    \A f \in DOMAIN record \ {OwnField(key)} : record'[f] = record[f]]_vars

\* C27 witness: after six lines that set every attribute field, a time-limit
\* value under the key EVENT was walked over: the six fields are as set
C27_Witness ==
    /\ ppc = "walk"
    /\ pidx = 10
    /\ pdialect = "V2_2"
    /\ psrc.attrs = Append(attrsFilled,
                           [key |-> keyEvent, form |-> "timelimit", text |-> textLimit25])
    /\ record.event = Some(textTest)
    /\ record.site = Some(textSite)
    /\ record.opening = Some(textOpening)
    /\ record.start_time = Some(Time(<<2024, 1, 15>>, Some(<<10, 30, 0>>)))
    /\ record.end_time = Some(Time(<<2024, 2, 29>>, None))
    /\ record.time_limit = Some(TimeLimit(from_secs(NumOf(5400)), from_secs(NumOf(0))))

-----------------------------------------------------------------------------
(* Properties of the converters *)

\* the seconds text and the fraction text of an elapsed-time token
TokenSeconds(node) ==
    LET str == node.inner[1].text
    IN  IF FindDot(str, 1) = 0 THEN str ELSE SubSeq(str, 1, FindDot(str, 1) - 1)

TokenFraction(node) ==
    LET str == node.inner[1].text
    IN  IF FindDot(str, 1) = 0 THEN <<>> ELSE SubSeq(str, FindDot(str, 1) + 1, Len(str))

\* S*1000 + F*100, F*10 or F for a fraction of 1, 2 or 3 digits, as a number
MillisOf(sec, frac) ==
    NumAdd(NumMul(NumOfText(sec), 1000),
           CASE Len(frac) = 1 -> NumMul(NumOfText(frac), 100)
             [] Len(frac) = 2 -> NumMul(NumOfText(frac), 10)
             [] OTHER -> NumOfText(frac))

\* C13: a call of the V3.0 parse_time_consumed on a token S.F with a
\* fraction of 1, 2 or 3 digits returns exactly S*1000 + F*100, F*10 or F
\* milliseconds, and on a token without fraction S whole seconds.
C13_Original ==
    (vfn = "parse_time_consumed" /\ vdialect = "V3" /\ vpc # "input") =>
        /\ vpc = "done"
        /\ vresult = IF TokenFraction(vnode) = <<>>
                     THEN from_secs(NumOfText(TokenSeconds(vnode)))
                     ELSE from_millis(MillisOf(TokenSeconds(vnode), TokenFraction(vnode)))

\* C13 witness: T15.123 returned 15123 ms
C13_Witness ==
    /\ vfn = "parse_time_consumed"
    /\ vdialect = "V3"
    /\ vpc = "done"
    /\ vnode = GrammarTimeConsumed(<<"T">> \o secs15 \o <<".", "1", "2", "3">>)
    /\ vresult = from_millis(NumOf(15123))

\* the cell a two-character square text writes
CellOf(text) == <<Unwrap(to_digit(text[1])), Unwrap(to_digit(text[2]))>>

\* a cell of the board: file and rank from 1 to 9
IsRealCell(text) == CellOf(text)[1] \in 1..9 /\ CellOf(text)[2] \in 1..9

\* C14: parse_normal_move returns Move(colour, origin, destination, piece)
\* with the first square of the line as origin and the second as
\* destination, for either colour and every piece; the origin text 00 gives
\* the origin (0,0) of a drop, and a destination text that is a cell of the
\* board never gives the destination (0,0).
C14_OriginThenDestination ==
    (vfn = "parse_normal_move" /\ vpc = "done") =>
        LET line == vnode.text
            from == SubSeq(line, 2, 3)
            to == SubSeq(line, 4, 5)
        IN  /\ vresult = ActMove(IF line[1] = "+" THEN Black ELSE White,
                                 Square(CellOf(from)[1], CellOf(from)[2]),
                                 Square(CellOf(to)[1], CellOf(to)[2]),
                                 parse_piece_type(SubSeq(line, 6, 7)))
            /\ from = <<"0", "0">> => vresult[3] = Square(0, 0)
            /\ IsRealCell(to) => vresult[4] # Square(0, 0)

\* C14 witness: -0053FU returned Move(White, (0,0), (5,3), Pawn)
C14_Witness ==
    /\ vfn = "parse_normal_move"
    /\ vpc = "done"
    /\ vnode = GrammarNormalMove(<<"-", "0", "0", "5", "3", "F", "U">>)
    /\ vresult = ActMove(White, Square(0, 0), Square(5, 3), "Pawn")

\* the name token of a player node
NameToken(node) == node.inner[1].text

\* C18: parse_player_name returns the name token with its surrounding
\* whitespace trimmed, and None (never Some of the empty text) when nothing
\* is left.
C18_Original ==
    (vfn = "parse_player_name" /\ vpc = "done") =>
        /\ vresult = IF Trim(NameToken(vnode)) = <<>> THEN None
                     ELSE Some(Trim(NameToken(vnode)))
        /\ vresult # Some(<<>>)

\* C18 witness: an empty name token returned None
C18_Witness ==
    /\ vfn = "parse_player_name"
    /\ vpc = "done"
    /\ vnode = GrammarPlayer(<<"N", "+">>)
    /\ vresult = None

\* the row nodes of the grid node whose rule is that of row r
RowNodes(node, kind, r) ==
    SelectSeq(node.inner, LAMBDA n : n.rule = GridRules(kind)[r])

\* the cell nodes of a row node, in order
CellNodes(row) == SelectSeq(row.inner, LAMBDA n : n.rule = "grid_cell")

\* what the three characters of a cell stand for
CellContent(text) ==
    IF text = <<" ", "*", " ">> THEN None
    ELSE Some(<<IF text[1] = "-" THEN White ELSE Black,
                parse_piece_type(SubSeq(text, 2, 3))>>)

\* C22: the grid returned has H rows of W cells; cell [r][k] holds the
\* content of the k-th cell node of the row node r when there is one (None for
\* the empty marker, colour and piece type for a piece) and None otherwise,
\* so cell nodes beyond the W-th of a row are stored nowhere.
C22_GridRowMajor ==
    (vpc = "done" /\ vfn \in {"parse_grid", "parse_minishogi_grid", "parse_wildcat_grid"}) =>
        LET kind == GridKindOf(vfn)
            W == GridWidth(kind)
            H == GridHeight(kind)
        IN  /\ DOMAIN vresult = 1..H
            /\ \A r \in 1..H :
                  /\ DOMAIN vresult[r] = 1..W
                  /\ \A k \in 1..W :
                        LET rows == RowNodes(vnode, kind, r)
                        IN  vresult[r][k] =
                               IF rows # <<>> /\ k <= Len(CellNodes(rows[1]))
                               THEN CellContent(CellNodes(rows[1])[k].text)
                               ELSE None

\* C22 witness: a 3x5 grid whose row 1 writes four cells and whose row 3
\* writes one: row 1 holds the first three, row 3 the one, the rest is None
C22_Witness ==
    /\ vpc = "done"
    /\ vfn = "parse_wildcat_grid"
    /\ vnode = GridNode("wildcat_grid", <<RowLine(1, 4), RowLine(3, 1)>>)
    /\ vresult = << <<Some(<<White, "Bishop">>), Some(<<Black, "King">>), Some(<<White, "Rook">>)>>,
                    <<None, None, None>>,
                    <<Some(<<White, "Rook">>), None, None>>,
                    <<None, None, None>>,
                    <<None, None, None>> >>

\* the triples a placement line writes: its pairs in their order, each with
\* the colour of the sign of the line
LineTriples(line) ==
    LET ps == Chunks(SubSeq(line, 3, Len(line)), 4)
    IN  [k \in 1..Len(ps) |->
            <<IF line[2] = "-" THEN White ELSE Black,
              Square(Unwrap(to_digit(ps[k][1])), Unwrap(to_digit(ps[k][2]))),
              parse_piece_type(SubSeq(ps[k], 3, 4))>>]

RECURSIVE AllTriples(_)
AllTriples(nodes) ==
    IF nodes = <<>> THEN <<>> ELSE LineTriples(Head(nodes).text) \o AllTriples(Tail(nodes))

\* C23: the placement list is the concatenation, in line order, of the
\* triples of each placement line, every triple with the colour of its own
\* line; and the V2.2 and the V3.0 functions return the same list for the
\* same lines.
C23_PlacementsInLineOrder ==
    (vpc = "done" /\ vfn = "parse_piece_placements") =>
        /\ vresult = AllTriples(vnode.inner)
        /\ v2_2_parse_piece_placements(vnode) = v3_parse_piece_placements(vnode)

\* C23 witness: a White line of two pairs, then a Black line of one
C23_Witness ==
    /\ vpc = "done"
    /\ vfn = "parse_piece_placements"
    /\ vdialect = "V3"
    /\ vnode = PlacementsNode(<< <<"P", "-", "5", "1", "O", "U", "1", "5", "H", "I">>,
                                 <<"P", "+", "1", "5", "H", "I">> >>)
    /\ vresult = << <<White, Square(5, 1), "King">>, <<White, Square(1, 5), "Rook">>,
                    <<Black, Square(1, 5), "Rook">> >>

\* the text of the value a time-limit converter was called on
LimitText(fn, node) == IF fn = "parse_timelimit" THEN node.text ELSE node

\* the hours, minutes and byoyomi figures of "HH:MM+SS"
LimitHours(t) == SubSeq(t, 1, IndexOf(t, ":", 1) - 1)
LimitMinutes(t) == SubSeq(t, IndexOf(t, ":", 1) + 1, IndexOf(t, "+", 1) - 1)
LimitByoyomi(t) == SubSeq(t, IndexOf(t, "+", 1) + 1, Len(t))

\* the figure is an unsigned 64-bit integer
IsU64Text(t) == AllDigits(t) /\ ~NumLess(u64Max, NumOfText(t))

\* hours*3600 + minutes*60 seconds and the byoyomi seconds, exactly
ExactLimit(t) ==
    TimeLimit(from_secs(NumAdd(NumMul(NumOfText(LimitHours(t)), 3600),
                               NumMul(NumOfText(LimitMinutes(t)), 60))),
              from_secs(NumOfText(LimitByoyomi(t))))

\* C24: for every hours, minutes and byoyomi figure that is an unsigned
\* 64-bit integer, the call of parse_timelimit (structured path) and of
\* try_parse_timelimit_str (free-text path) ends, without abort, in the time
\* limit of exactly hours*3600 + minutes*60 seconds and the byoyomi seconds.
C24_Original ==
    LET t == LimitText(vfn, vnode)
    IN  (/\ vfn \in {"parse_timelimit", "try_parse_timelimit_str"}
         /\ vpc # "input"
         /\ IsU64Text(LimitHours(t)) /\ IsU64Text(LimitMinutes(t))
         /\ IsU64Text(LimitByoyomi(t)))
        => /\ vpc = "done"
           /\ vresult = IF vfn = "parse_timelimit" THEN ExactLimit(t) ELSE Some(ExactLimit(t))

\* C24 witness: the largest hours figure whose seconds fit u64 gives
\* 18446744073709551600 s by the free-text path
C24_Witness ==
    /\ vfn = "try_parse_timelimit_str"
    /\ vpc = "done"
    /\ vnode = hoursLargest \o <<":", "0", "0", "+", "1", "0">>
    /\ vresult = Some(TimeLimit(from_secs(NumSub(u64Max, NumOf(15))), from_secs(NumOf(10))))

\* the other dialect
OtherDialect(d) == IF d = "V2_2" THEN "V3" ELSE "V2_2"

\* the time-of-day token of a datetime node, <<>> without one
ClockToken(node) ==
    IF IsSome(FirstOfRule(node.inner, "time")) THEN Unwrap(FirstOfRule(node.inner, "time")).text
    ELSE <<>>

\* C25: for the same date token and the same optional time-of-day token the
\* V2.2 conversion and the V3.0 conversion return the same value, also when
\* the time of day has three fields of which one is unparsable or out of
\* range, and when it has fewer than three fields.
C25_Original ==
    (vfn = "parse_datetime" /\ vpc = "done") =>
        vresult = parse_datetime(OtherDialect(vdialect), vnode)

\* C25 witness: a time of day of two fields is dropped under V2.2, the date
\* is kept
C25_Witness ==
    /\ vfn = "parse_datetime"
    /\ vpc = "done"
    /\ vdialect = "V2_2"
    /\ vnode = GrammarDateTime(dateJan15 \o <<" ">> \o clockTwoFields)
    /\ vresult = Some(Time(<<2024, 1, 15>>, None))

====
